---- MODULE Spec2Model ----
(***************************************************************************)
(* State-machine model of the resource-graph resolution and usage          *)
(* reconciliation code of                                                   *)
(*   src/2025.1 (Epoxy)/scripts/utils/sec10-ports-diagnostics.py           *)
(*   src/2025.1 (Epoxy)/scripts/utils/project-overview.py                  *)
(*                                                                         *)
(* Python values are modelled as follows.  A string-valued attribute that  *)
(* is None (or missing, where the code reads it with getattr(.., None))    *)
(* is the string None below; the empty string is "".  Both are falsy, as   *)
(* in Python.  An optional integer is a sequence: <<>> for None, <<v>>     *)
(* for the integer v, so that 0 and None stay distinct.                    *)
(***************************************************************************)
EXTENDS Integers, Sequences, FiniteSets, TLC

VARIABLES
    \* ---- NameResolver (sec10-ports-diagnostics.py) ----
    _id,                  \* self._id: type -> {id: obj}
    _name_to_ids,         \* self._name_to_ids: type -> {name: {ids}}
    trunks,               \* self.trunks
    trunk_by_parent_port, \* self.trunk_by_parent_port: port id -> trunk
    subport_to_trunk,     \* self.subport_to_trunk: port id -> {trunk, sp}
    netTrunks,            \* what conn.network.trunks() yields (or a failure)
    ports,                \* the ports handed to build_rows
    rows,                 \* the rows build_rows returned
    rpc,                  \* position of the ports-diagnostics run
    conn,                 \* what the other fetches of __init__ yielded so far
    _have_qos,            \* self._have_qos
    _have_lb,             \* self._have_lb
    fips_by_port,         \* self.fips_by_port: port id -> floating IPs
    \* ---- main, compute quotas (project-overview.py) ----
    maxQuotaSet,          \* what conn.compute.get_quota_set(project_id) answered
    maxLimits,            \* what the fallback conn.compute.get_limits() answered
    max_instances, max_cores, max_ram_mb,   \* the locals of main
    compute_header,       \* the three rendered maxima of the header line
    mpc,                  \* position inside the compute-quota part of main
    \* ---- compute_usage (project-overview.py) ----
    servers,              \* argument servers
    flavor_by_id,         \* argument flavor_by_id (the flavor cache)
    cache0,               \* flavor_by_id as it was handed to compute_usage
    flavorSvc,            \* what conn.compute.get_flavor(fid) answers
    limits,               \* what conn.compute.get_limits() answered
    qset,                 \* what conn.compute.get_quota_set(..) answered
    iu, cu, ru,           \* the locals iu, cu, ru
    live,                 \* the local live
    k,                    \* index of the next server of the tier-3 loop
    calls,                \* the calls made on conn.compute, in order
    result,               \* the returned triple
    pc,                   \* position inside compute_usage
    \* ---- get_binding_attr (sec10-ports-diagnostics.py) ----
    bport,                \* argument port
    bkey,                 \* argument key (<< >> before the call)
    bval,                 \* the returned value
    \* ---- main, networking and block storage (project-overview.py) ----
    netSvc,               \* what each call on conn.network answered
    all_networks, all_subnets,              \* the locals of main
    project_ports, project_routers, project_sgs, project_fips,
    neutron_quota,        \* the local neutron_quota
    networking_header,    \* the counts and maxima of the networking header
    cinderSvc,            \* what the calls on conn.block_storage answered
    cinder_header         \* the maxima of the block-storage header

vars == << _id, _name_to_ids, trunks, trunk_by_parent_port, subport_to_trunk,
           netTrunks, ports, rows, rpc, conn, _have_qos, _have_lb,
           fips_by_port, maxQuotaSet, maxLimits, max_instances, max_cores,
           max_ram_mb, compute_header, mpc,
           servers, flavor_by_id, cache0, flavorSvc, limits, qset, iu, cu, ru,
           live, k, calls, result, pc, bport, bkey, bval,
           netSvc, all_networks, all_subnets, project_ports, project_routers,
           project_sgs, project_fips, neutron_quota, networking_header,
           cinderSvc, cinder_header >>

resolverVars == << _id, _name_to_ids >>
trunkVars == << trunks, trunk_by_parent_port, subport_to_trunk, netTrunks,
                ports, rows, rpc >>
diagVars == << conn, _have_qos, _have_lb, fips_by_port >>
headerVars == << maxQuotaSet, maxLimits, max_instances, max_cores, max_ram_mb,
                 compute_header, mpc >>
usageVars == << servers, flavor_by_id, cache0, flavorSvc, limits, qset, iu,
                cu, ru, live, k, calls, result, pc >>
bindingVars == << bport, bkey, bval >>
overviewVars == << netSvc, all_networks, all_subnets, project_ports,
                   project_routers, project_sgs, project_fips, neutron_quota,
                   networking_header, cinderSvc, cinder_header >>

-----------------------------------------------------------------------------
(* Python values *)

\* None where a string is expected.
None == "<None>"

\* Python truthiness of a string-or-None value: `if x`.
Truthy(x) == x /= None /\ x /= ""

\* Python `a or b` on string-or-None values.
Or(a, b) == IF Truthy(a) THEN a ELSE b

\* None where an integer is expected, and the integer v.
Null == << >>
IntV(v) == << v >>

\* dict.get(key) on a dict modelled as a function: None-like default when absent.
Get(d, key, default) == IF key \in DOMAIN d THEN d[key] ELSE default

\* The dict d with d[key] = val assigned.
Put(d, key, val) == [x \in DOMAIN d \cup {key} |-> IF x = key THEN val ELSE d[x]]

\* The empty dict.
EmptyDict == << >>

-----------------------------------------------------------------------------
(* Python strings that are searched: sequences of one-character strings *)

\* The letters, by position.
LowerLetters == << "a", "b", "c", "d", "e", "f", "g", "h", "i", "j", "k", "l",
                   "m", "n", "o", "p", "q", "r", "s", "t", "u", "v", "w", "x",
                   "y", "z" >>
UpperLetters == << "A", "B", "C", "D", "E", "F", "G", "H", "I", "J", "K", "L",
                   "M", "N", "O", "P", "Q", "R", "S", "T", "U", "V", "W", "X",
                   "Y", "Z" >>

\* The position of character c in the alphabet abc, 0 when it is not there.
LetterIndex(abc, c) ==
    IF \E i \in 1..Len(abc) : abc[i] = c
    THEN CHOOSE i \in 1..Len(abc) : abc[i] = c
    ELSE 0

\* str.upper() and str.lower(), character by character.
StrUpper(w) ==
    [i \in 1..Len(w) |->
        IF LetterIndex(LowerLetters, w[i]) > 0
        THEN UpperLetters[LetterIndex(LowerLetters, w[i])] ELSE w[i]]
StrLower(w) ==
    [i \in 1..Len(w) |->
        IF LetterIndex(UpperLetters, w[i]) > 0
        THEN LowerLetters[LetterIndex(UpperLetters, w[i])] ELSE w[i]]

\* w.startswith(prefix)
startswith(w, prefix) ==
    /\ Len(prefix) <= Len(w)
    /\ \A i \in 1..Len(prefix) : w[i] = prefix[i]

\* `sub in w` on strings.
StrIn(sub, w) ==
    \E off \in 0..(Len(w) - Len(sub)) :
        \A i \in 1..Len(sub) : w[off + i] = sub[i]

\* The string literals of the binding classification (lines 211-215).
Lit ==
    [compute |-> << "c", "o", "m", "p", "u", "t", "e" >>,
     network_router |->
        << "n", "e", "t", "w", "o", "r", "k", ":", "r", "o", "u", "t", "e",
        "r" >>,
     LOADBALANCER |->
        << "L", "O", "A", "D", "B", "A", "L", "A", "N", "C", "E", "R" >>,
     OCTAVIA |-> << "O", "C", "T", "A", "V", "I", "A" >>]

-----------------------------------------------------------------------------
(* NameResolver: the identifier index and the name lookup *)

\* Resource types the resolver is used with in this model.
Types == {"network", "subnet", "router", "security_group", "qos_policy",
          "server", "loadbalancer", "trunk"}

\* Identifiers and names of the indexed records.
Ids == {"n1", "n2", "n3"}
Names == {"net-a", "net-b"}

\* getattr(obj, "name", None) or getattr(obj, "display_name", None)
ObjName(obj) == Or(obj.name, obj.display_name)

\* NameResolver._index_obj(typ, obj): the pair of maps after the call.
\* A record without id is skipped; the id map entry is overwritten; the id is
\* added to the set of its name, and is removed from no other set.
_index_obj(idm, n2i, typ, obj) ==
    IF ~Truthy(obj.id)
    THEN [id |-> idm, n2i |-> n2i]
    ELSE LET idm2 == [idm EXCEPT ![typ] = Put(idm[typ], obj.id, obj)]
             name == ObjName(obj)
         IN  IF Truthy(name)
             THEN [id  |-> idm2,
                   n2i |-> [n2i EXCEPT ![typ] =
                              Put(n2i[typ], name,
                                  Get(n2i[typ], name, {}) \cup {obj.id})]]
             ELSE [id |-> idm2, n2i |-> n2i]

\* A try_name that treats any non-empty id set as unambiguous.
try_name_AnyHolder(typ, oid) ==
    IF ~Truthy(oid) THEN None
    ELSE IF oid \notin DOMAIN _id[typ] THEN None
    ELSE LET name == ObjName(_id[typ][oid])
         IN  IF ~Truthy(name) THEN None
             ELSE IF Cardinality(Get(_name_to_ids[typ], name, {})) >= 1
                  THEN name ELSE None

\* NameResolver.try_name(typ, oid)
try_name(typ, oid) ==
    IF ~Truthy(oid) THEN None
    ELSE IF oid \notin DOMAIN _id[typ] THEN None
    ELSE LET name == ObjName(_id[typ][oid])
         IN  IF ~Truthy(name) THEN None
             ELSE IF Cardinality(Get(_name_to_ids[typ], name, {})) = 1
                  THEN name ELSE None

\* A name_or_id that degrades an unresolved id to the empty string.
name_or_id_Blank(typ, oid) ==
    IF ~Truthy(oid) THEN ""
    ELSE LET nm == try_name(typ, oid) IN IF Truthy(nm) THEN nm ELSE ""

\* NameResolver.name_or_id(typ, oid)
name_or_id(typ, oid) ==
    IF ~Truthy(oid) THEN ""
    ELSE LET nm == try_name(typ, oid) IN IF Truthy(nm) THEN nm ELSE oid

\* The records an indexing call may be given: any id (also None and ""), and
\* a name, a display_name in place of the name, or neither.
IndexObjs ==
    { o \in [id : Ids \cup {None, ""},
             name : Names \cup {None, ""},
             display_name : {None, "net-a"}] :
        \/ o.name \in Names /\ o.display_name = None
        \/ o.name = None /\ o.display_name = "net-a"
        \/ o.name = "" /\ o.display_name = None }

\* The (type, record) pairs indexed in the resolver specification.  The type
\* "router" shares the id n1 and the names with "network".
IndexInputs ==
    {<<"network", o>> : o \in IndexObjs}
      \cup {<<"router", o>> : o \in {x \in IndexObjs : x.id \in {"n1", None}}}

\* The maps of a freshly constructed resolver (two defaultdicts).
EmptyIndex == [t \in Types |-> EmptyDict]

\* One call self._index_obj(typ, obj), as made by _load for every fetched
\* record and by the trunk loop.
IndexObj ==
    \E inp \in IndexInputs :
        LET r == _index_obj(_id, _name_to_ids, inp[1], inp[2])
        IN  /\ _id' = r.id
            /\ _name_to_ids' = r.n2i
            /\ UNCHANGED << bindingVars, overviewVars >>
            /\ UNCHANGED << trunkVars, diagVars, headerVars, usageVars >>

-----------------------------------------------------------------------------
(* NameResolver.__init__: the collections loaded before the trunks *)

\* The outcome of a fetch: it raised, or it returned items.
Raised == [raised |-> TRUE, items |-> << >>]
Fetched(items) == [raised |-> FALSE, items |-> items]

\* An answer variable before its call is made.
NotCalled == [raised |-> FALSE, called |-> FALSE]

\* A fetch that yielded items and then raised: the collections are iterated
\* lazily, so _load has indexed the items that came before the failure.
RaisedAfter(items) == [raised |-> TRUE, items |-> items]

\* A record with an id and a name.
Named(id, name) == [id |-> id, name |-> name, display_name |-> None]

\* A subnet record: its network_id on top.
Subnet(id, name, network_id) ==
    [id |-> id, name |-> name, display_name |-> None, network_id |-> network_id]

\* A floating IP record.
FloatingIp(port_id, router_id) ==
    [port_id |-> port_id, floating_ip_address |-> "203.0.113.7",
     floating_network_id |-> "n1", router_id |-> router_id]

\* What each fetch may yield.  The id d1 may be a server, a router and a load
\* balancer at once; the servers d1, d2 and the groups sg1, sg2 may share a name;
\* the subnet s1 may belong to the indexed network n1 or to the unknown n9;
\* the QoS policies may come in part before the fetch fails; the floating IPs
\* are attached to p1 (with and without a router) or to no port.
Fetches ==
    [network |-> { Raised, Fetched(<< Named("n1", "net-a") >>) },
     subnet |-> { Raised, Fetched(<< Subnet("s1", "sub-a", "n1") >>),
                  Fetched(<< Subnet("s1", "sub-a", "n9") >>) },
     router |-> { Raised, Fetched(<< >>), Fetched(<< Named("d1", "rtr") >>) },
     security_group |->
         { Raised, Fetched(<< Named("sg1", "web") >>),
           Fetched(<< Named("sg1", "web"), Named("sg2", "web") >>) },
     qos_policy |->
         { Raised, RaisedAfter(<< Named("q1", "gold") >>),
           Fetched(<< Named("q1", "gold") >>) },
     server |->
         { Raised, Fetched(<< >>), Fetched(<< Named("d1", "vm") >>),
           Fetched(<< Named("d1", "vm"), Named("d2", "vm") >>) },
     loadbalancer |->
         { Raised, Fetched(<< >>), Fetched(<< Named("d1", "lb") >>) },
     ip |-> { Raised,
              RaisedAfter(<< FloatingIp("p1", "d1") >>),
              Fetched(<< FloatingIp("p1", "d1"), FloatingIp(None, None),
                         FloatingIp("p1", None) >>) }]

\* The collections fetched through conn besides the trunks.
Collections == DOMAIN Fetches

\* NameResolver._load(typ, iterable), lines 139-141, on the maps st = [id, n2i]
\* from item i on.
RECURSIVE _load(_, _, _, _)
_load(st, typ, items, i) ==
    IF i > Len(items) THEN st
    ELSE _load(_index_obj(st.id, st.n2i, typ, items[i]), typ, items, i + 1)

\* A load outside any try block (lines 89-92 and 100): the items are indexed;
\* a failure of the fetch leaves __init__ as an exception (init_raised).
LoadUnguarded(typ, here, next) ==
    /\ rpc = here
    /\ \E f \in Fetches[typ] :
         LET st == _load([id |-> _id, n2i |-> _name_to_ids], typ, f.items, 1)
         IN  /\ conn' = [conn EXCEPT ![typ] = f]
             /\ _id' = st.id
             /\ _name_to_ids' = st.n2i
             /\ rpc' = IF f.raised THEN "init_raised" ELSE next
    /\ UNCHANGED << bindingVars, overviewVars >>
    /\ UNCHANGED << trunks, trunk_by_parent_port, subport_to_trunk, netTrunks,
                    ports, rows, _have_qos, _have_lb, fips_by_port,
                    headerVars, usageVars >>

\* Lines 89-92.
LoadNetworks == LoadUnguarded("network", "network", "subnet")
LoadSubnets == LoadUnguarded("subnet", "subnet", "router")
LoadRouters == LoadUnguarded("router", "router", "security_group")
LoadSecurityGroups ==
    LoadUnguarded("security_group", "security_group", "qos_policy")

\* Lines 93-98: the QoS policies, inside try/except.
LoadQosPolicies ==
    /\ rpc = "qos_policy"
    /\ \E f \in Fetches.qos_policy :
         LET st == _load([id |-> _id, n2i |-> _name_to_ids], "qos_policy",
                         f.items, 1)
         IN  /\ conn' = [conn EXCEPT !["qos_policy"] = f]
             /\ _id' = st.id
             /\ _name_to_ids' = st.n2i
             /\ _have_qos' = ~f.raised
    /\ rpc' = "server"
    /\ UNCHANGED << bindingVars, overviewVars >>
    /\ UNCHANGED << trunks, trunk_by_parent_port, subport_to_trunk, netTrunks,
                    ports, rows, _have_lb, fips_by_port, headerVars,
                    usageVars >>

\* Line 100.
LoadServers == LoadUnguarded("server", "server", "loadbalancer")

\* Lines 103-107: the load balancers, inside try/except.
LoadLoadBalancers ==
    /\ rpc = "loadbalancer"
    /\ \E f \in Fetches.loadbalancer :
         LET st == _load([id |-> _id, n2i |-> _name_to_ids], "loadbalancer",
                         f.items, 1)
         IN  /\ conn' = [conn EXCEPT !["loadbalancer"] = f]
             /\ _id' = st.id
             /\ _name_to_ids' = st.n2i
             /\ _have_lb' = ~f.raised
    /\ rpc' = "trunk"
    /\ UNCHANGED << bindingVars, overviewVars >>
    /\ UNCHANGED << trunks, trunk_by_parent_port, subport_to_trunk, netTrunks,
                    ports, rows, _have_qos, fips_by_port, headerVars,
                    usageVars >>

-----------------------------------------------------------------------------
(* NameResolver.__init__: the trunk maps; build_rows: the trunk role *)

\* Bounds of the trunk collection.
MaxTrunks == 2
MaxSubports == 2

\* Port ids.  p3 is the port of no trunk.
PortIds == {"p1", "p2", "p3"}

\* Trunk ids by position in the fetched collection (ids are unique), and the
\* one name all trunks carry.
TrunkIdAt == << "t1", "t2", "t3", "t4" >>

\* Sequences over S of length at most n.
SeqUpTo(S, n) == UNION {[1..m -> S] : m \in 0..n}

\* The sub_ports entries: dicts with port_id (possibly missing or empty),
\* segmentation_type and segmentation_id.
SubPorts ==
    [port_id : {"p1", None}, segmentation_type : {"vlan"}, segmentation_id : {10}]

\* What a trunk record carries besides its id: the parent port_id (possibly
\* None) and the sub_ports list.  A sub_ports that is None or missing is the
\* empty list here: the code reads it as `getattr(t, "sub_ports", []) or []`
\* at both places (lines 121 and 236).
TrunkBodies ==
    [port_id : {"p1", "p2", None},
     sub_ports : SeqUpTo(SubPorts, MaxSubports)]

\* The trunk collections conn.network.trunks() may yield when it succeeds.
TrunkLists ==
    { [i \in 1..Len(bs) |->
          [id |-> TrunkIdAt[i], name |-> "tr", display_name |-> None,
           port_id |-> bs[i].port_id, sub_ports |-> bs[i].sub_ports]]
      : bs \in SeqUpTo(TrunkBodies, MaxTrunks) }

\* getattr(t, "sub_ports", []) or []
SubPortsOf(t) == t.sub_ports

\* A subport loop that indexes the first entry of the list only.
IndexSubPorts_FirstOnly(s2t, t, j) ==
    IF j > 1 \/ Len(SubPortsOf(t)) = 0 THEN s2t
    ELSE LET sp == SubPortsOf(t)[1]
         IN  IF Truthy(sp.port_id)
             THEN Put(s2t, sp.port_id, [trunk |-> t, sp |-> sp]) ELSE s2t

\* The inner loop `for sp in ... sub_ports` (lines 121-124) from entry j on.
RECURSIVE IndexSubPorts(_, _, _)
IndexSubPorts(s2t, t, j) ==
    IF j > Len(SubPortsOf(t)) THEN s2t
    ELSE LET sp == SubPortsOf(t)[j]
             pid == sp.port_id
         IN  IndexSubPorts(
                 IF Truthy(pid) THEN Put(s2t, pid, [trunk |-> t, sp |-> sp])
                                ELSE s2t,
                 t, j + 1)

\* The loop `for t in self.trunks` (lines 116-124) from trunk i on, on the
\* state st = [id, n2i, parent, sub].
RECURSIVE IndexTrunks(_, _, _)
IndexTrunks(st, ts, i) ==
    IF i > Len(ts) THEN st
    ELSE LET t == ts[i]
             r == _index_obj(st.id, st.n2i, "trunk", t)
         IN  IndexTrunks(
                 [id     |-> r.id,
                  n2i    |-> r.n2i,
                  parent |-> IF Truthy(t.port_id)
                             THEN Put(st.parent, t.port_id, t) ELSE st.parent,
                  sub    |-> IndexSubPorts(st.sub, t, 1)],
                 ts, i + 1)

\* NameResolver.__init__, lines 109-126: fetch the trunks and index them; a
\* failing fetch leaves the trunk list and the maps empty.
LoadTrunks ==
    /\ rpc = "trunk"
    /\ LET ts == IF netTrunks.raised THEN << >> ELSE netTrunks.items
           st == IndexTrunks([id |-> _id, n2i |-> _name_to_ids,
                              parent |-> EmptyDict, sub |-> EmptyDict], ts, 1)
       IN  /\ trunks' = ts
           /\ _id' = st.id
           /\ _name_to_ids' = st.n2i
           /\ trunk_by_parent_port' = st.parent
           /\ subport_to_trunk' = st.sub
    /\ rpc' = "ip"
    /\ UNCHANGED << bindingVars, overviewVars >>
    /\ UNCHANGED << netTrunks, ports, rows, diagVars, headerVars, usageVars >>

\* The loop of lines 132-134 from item i on: self.fips_by_port[port_id].append.
RECURSIVE IndexFips(_, _, _)
IndexFips(m, items, i) ==
    IF i > Len(items) THEN m
    ELSE LET ip == items[i]
         IN  IndexFips(IF Truthy(ip.port_id)
                       THEN Put(m, ip.port_id,
                                Append(Get(m, ip.port_id, << >>), ip))
                       ELSE m,
                       items, i + 1)

\* NameResolver.__init__, lines 128-137: the floating IPs by attached port,
\* inside try/except; what was appended before a failure stays.
LoadFloatingIps(Answers) ==
    /\ rpc = "ip"
    /\ \E f \in Answers :
         /\ conn' = [conn EXCEPT !["ip"] = f]
         /\ fips_by_port' = IndexFips(EmptyDict, f.items, 1)
    /\ rpc' = "loaded"
    /\ UNCHANGED << bindingVars, overviewVars >>
    /\ UNCHANGED << resolverVars, trunks, trunk_by_parent_port,
                    subport_to_trunk, netTrunks, ports, rows, _have_qos,
                    _have_lb, headerVars, usageVars >>

\* The role of a port that is no trunk port: trunk_role = "".
NoRole == [kind |-> ""]

\* A trunk role that tests the subport map before the parent map.
trunk_role_SubportFirst(p) ==
    IF p.id \in DOMAIN subport_to_trunk
    THEN LET t == subport_to_trunk[p.id].trunk
             sp == subport_to_trunk[p.id].sp
         IN  [kind |-> "TRUNK-SUBPORT", trunk |-> t.id,
              tname |-> name_or_id("trunk", t.id),
              segtype |-> sp.segmentation_type, segid |-> sp.segmentation_id]
    ELSE IF p.id \in DOMAIN trunk_by_parent_port
    THEN LET t == trunk_by_parent_port[p.id]
         IN  [kind |-> "TRUNK-PARENT", trunk |-> t.id,
              tname |-> name_or_id("trunk", t.id),
              nsubs |-> Len(SubPortsOf(t))]
    ELSE NoRole

\* build_rows, lines 231-244: the trunk role of port p.  The role string
\* f"TRUNK-PARENT {tname} (subports={nsubs})" or
\* f"TRUNK-SUBPORT of {tname} [{segtype}:{segid}]" is kept as its parts.
trunk_role(p) ==
    IF p.id \in DOMAIN trunk_by_parent_port
    THEN LET t == trunk_by_parent_port[p.id]
         IN  [kind |-> "TRUNK-PARENT", trunk |-> t.id,
              tname |-> name_or_id("trunk", t.id),
              nsubs |-> Len(SubPortsOf(t))]
    ELSE IF p.id \in DOMAIN subport_to_trunk
    THEN LET t == subport_to_trunk[p.id].trunk
             sp == subport_to_trunk[p.id].sp
         IN  [kind |-> "TRUNK-SUBPORT", trunk |-> t.id,
              tname |-> name_or_id("trunk", t.id),
              segtype |-> sp.segmentation_type, segid |-> sp.segmentation_id]
    ELSE NoRole

-----------------------------------------------------------------------------
(* build_rows: the fields of a row *)

\* What an expression of build_rows comes to: a value, or an exception.
Returned(v) == [raised |-> FALSE, val |-> v]
Raises == [raised |-> TRUE, val |-> << >>]

\* The entries of a port's fixed_ips list: a dict with ip_address and
\* subnet_id (None when the key is missing), or a value that is no dict (a
\* bare address string), on which fip.get raises AttributeError.
FixedIpDict(ip, subnet_id) ==
    [kind |-> "dict", ip_address |-> ip, subnet_id |-> subnet_id]
FixedIpBare == [kind |-> "str", ip_address |-> "10.0.0.9", subnet_id |-> None]

\* A fixed-IP line that leaves the network out.
FixedIpStr_NoNetwork(fip) ==
    [ip |-> fip.ip_address,
     subnet |-> name_or_id("subnet", fip.subnet_id),
     network |-> ""]

\* Lines 177-184 for one dict entry: the parts of
\* f"ip_address='{ip}', subnet='{subnet_name}({net_name})'".
FixedIpStr(fip) ==
    LET subnet_id == fip.subnet_id
        subnet_name == name_or_id("subnet", subnet_id)
        net_name == IF subnet_id \in DOMAIN _id["subnet"]
                    THEN name_or_id("network", _id["subnet"][subnet_id].network_id)
                    ELSE ""
    IN  [ip |-> fip.ip_address, subnet |-> subnet_name, network |-> net_name]

\* Lines 175-185: the loop over getattr(p, "fixed_ips", []) or [].
fixed_ips_fmt(p) ==
    IF \E i \in 1..Len(p.fixed_ips) : p.fixed_ips[i].kind /= "dict"
    THEN Raises
    ELSE Returned([i \in 1..Len(p.fixed_ips) |-> FixedIpStr(p.fixed_ips[i])])

\* Lines 188-197: the floating IPs attached to the port, each as the parts of
\* f"fip='{fip}', external_net='{ext_net_name}'[, router='{router_name}']".
fips_fmt(p) ==
    LET fs == Get(fips_by_port, p.id, << >>)
    IN  [i \in 1..Len(fs) |->
            [fip |-> fs[i].floating_ip_address,
             external_net |-> name_or_id("network", fs[i].floating_network_id),
             router |-> IF Truthy(fs[i].router_id)
                        THEN name_or_id("router", fs[i].router_id) ELSE ""]]

\* The entries of a security-group list: an id string, or an embedded group
\* object (a dict that carries the id).
SgId(id) == [kind |-> "id", id |-> id]
SgObject(id) == [kind |-> "obj", id |-> id]

\* getattr(p, "security_group_ids", None) or getattr(p, "security_groups", [])
\* or []: an attribute that is missing, None or empty is the empty list.
SecurityGroupsOf(p) ==
    IF Len(p.security_group_ids) > 0 THEN p.security_group_ids
    ELSE p.security_groups

\* Line 203 for one entry.  The entry itself is handed to name_or_id: an id
\* is looked up; an embedded dict is unhashable, so self._id[typ].get(oid)
\* raises TypeError.
SgName(e) ==
    IF e.kind = "id" THEN Returned(name_or_id("security_group", e.id))
    ELSE Raises

\* Lines 200-204: the names of the port's security groups.
secgroups_fmt(p) ==
    LET sgs == SecurityGroupsOf(p)
    IN  IF \E i \in 1..Len(sgs) : SgName(sgs[i]).raised
        THEN Raises
        ELSE Returned([i \in 1..Len(sgs) |-> SgName(sgs[i]).val])

\* A best-effort resolution that asks the router index first.
BestEffort_RouterFirst(device_id) ==
    IF Truthy(try_name("router", device_id))
    THEN try_name("router", device_id)
    ELSE IF Truthy(try_name("server", device_id))
    THEN try_name("server", device_id)
    ELSE IF Truthy(try_name("loadbalancer", device_id))
    THEN try_name("loadbalancer", device_id)
    ELSE device_id

\* Lines 218-224: the best-effort fallback over server, router, loadbalancer.
BestEffort(device_id) ==
    IF Truthy(try_name("server", device_id))
    THEN try_name("server", device_id)
    ELSE IF Truthy(try_name("router", device_id))
    THEN try_name("router", device_id)
    ELSE IF Truthy(try_name("loadbalancer", device_id))
    THEN try_name("loadbalancer", device_id)
    ELSE device_id

\* A binding that ignores the owner and always resolves best-effort.
bound_to_OwnerBlind(p) ==
    LET device_id == Or(p.device_id, "")
    IN  IF ~Truthy(device_id) THEN "" ELSE BestEffort(device_id)

\* Lines 207-224: the device binding target.  device_owner is a character
\* sequence; a device_owner that is None or missing is the empty one (line
\* 207 reads it as `getattr(p, "device_owner", "") or ""`).
bound_to(p) ==
    LET owner == p.device_owner
        device_id == Or(p.device_id, "")
    IN  IF ~Truthy(device_id) THEN ""
        ELSE IF startswith(owner, Lit.compute)
        THEN name_or_id("server", device_id)
        ELSE IF startswith(owner, Lit.network_router)
        THEN name_or_id("router", device_id)
        ELSE IF \/ StrIn(Lit.LOADBALANCER, StrUpper(owner))
                \/ StrIn(Lit.OCTAVIA, StrLower(owner))
        THEN IF _have_lb THEN name_or_id("loadbalancer", device_id)
                         ELSE device_id
        ELSE BestEffort(device_id)

\* Line 247: the QoS policy name.
qos_policy(p) ==
    IF Truthy(p.qos_policy_id) THEN name_or_id("qos_policy", p.qos_policy_id)
    ELSE ""

\* str.replace(old, new) on a character sequence, for one-character old and
\* new.
replace(w, old, new) == [i \in 1..Len(w) |-> IF w[i] = old THEN new ELSE w[i]]

\* The keys build_rows passes to get_binding_attr (lines 227-229).
BindingKey ==
    [host_id |->
        << "b", "i", "n", "d", "i", "n", "g", ":", "h", "o", "s", "t", "_",
           "i", "d" >>,
     vif_type |->
        << "b", "i", "n", "d", "i", "n", "g", ":", "v", "i", "f", "_", "t",
           "y", "p", "e" >>,
     vnic_type |->
        << "b", "i", "n", "d", "i", "n", "g", ":", "v", "n", "i", "c", "_",
           "t", "y", "p", "e" >>]

\* get_binding_attr(port, key), lines 60-72.  port.attrs holds the attributes
\* getattr finds, port.to_dict is what port.to_dict(computed=False) does: it
\* raises, or it returns a dict.
get_binding_attr(port, key) ==
    LET alt == replace(key, ":", "_")
        val == Get(port.attrs, alt, None)
    IN  IF val /= None THEN val
        ELSE IF port.to_dict.raised THEN None
        ELSE LET d == port.to_dict.val
             IN  Get(d, key, Get(d, alt, None))

\* Lines 173-294 for one port: the row, or the exception of one of its
\* fields.  The columns that copy a port attribute (name, status, mac, ...)
\* are left out.
Row(p) ==
    IF fixed_ips_fmt(p).raised \/ secgroups_fmt(p).raised
    THEN Raises
    ELSE Returned([id |-> p.id,
                   network |-> name_or_id("network", p.network_id),
                   ips |-> fixed_ips_fmt(p).val,
                   fips |-> fips_fmt(p),
                   secgroups |-> secgroups_fmt(p).val,
                   device_owner |-> p.device_owner,
                   bound_to |-> bound_to(p),
                   host |-> Or(get_binding_attr(p, BindingKey.host_id), ""),
                   vif_type |->
                       Or(get_binding_attr(p, BindingKey.vif_type), ""),
                   vnic_type |->
                       Or(get_binding_attr(p, BindingKey.vnic_type), ""),
                   qos_policy |-> qos_policy(p),
                   trunk |-> trunk_role(p)])

\* build_rows(conn, resolver, ports), lines 171-295: one row per port, in
\* order; no statement of the loop is inside a try block, so the exception of
\* one port's field is the exception of build_rows.
build_rows(ps) ==
    IF \E i \in 1..Len(ps) : Row(ps[i]).raised
    THEN Raises
    ELSE Returned([i \in 1..Len(ps) |-> Row(ps[i]).val])

\* main, line 348: rows = build_rows(conn, resolver, ports); an exception of
\* build_rows leaves main without rows (rows_raised).
BuildRows ==
    /\ rpc = "loaded"
    /\ LET r == build_rows(ports)
       IN  /\ rows' = IF r.raised THEN << >> ELSE r.val
           /\ rpc' = IF r.raised THEN "rows_raised" ELSE "done"
    /\ UNCHANGED << bindingVars, overviewVars >>
    /\ UNCHANGED << resolverVars, trunks, trunk_by_parent_port,
                    subport_to_trunk, netTrunks, ports, diagVars, headerVars,
                    usageVars >>

\* The ports handed to build_rows.

\* A port with no addresses, groups, device, QoS policy or binding
\* attributes.
PlainPort(id) ==
    [id |-> id, network_id |-> "n1", fixed_ips |-> << >>,
     security_group_ids |-> << >>, security_groups |-> << >>,
     device_owner |-> << >>, device_id |-> None, qos_policy_id |-> None,
     attrs |-> EmptyDict, to_dict |-> Returned(EmptyDict)]

\* The port lists of the trunk specification.
PortLists == { << PlainPort("p1"), PlainPort("p2"), PlainPort("p3") >>,
               << PlainPort("p2"), PlainPort("p1") >> }

\* The device_owner values: a Nova instance, a router interface, the two
\* owners Octavia uses, a lower-case load-balancer owner, a DHCP port, and
\* no owner.
Owner ==
    [compute_nova |->
        << "c", "o", "m", "p", "u", "t", "e", ":", "n", "o", "v", "a" >>,
     router_interface |->
        << "n", "e", "t", "w", "o", "r", "k", ":", "r", "o", "u", "t", "e",
        "r", "_", "i", "n", "t", "e", "r", "f", "a", "c", "e" >>,
     LOADBALANCERV2 |->
        << "n", "e", "u", "t", "r", "o", "n", ":", "L", "O", "A", "D", "B",
        "A", "L", "A", "N", "C", "E", "R", "V", "2" >>,
     loadbalancer |->
        << "n", "e", "u", "t", "r", "o", "n", ":", "l", "o", "a", "d", "b",
        "a", "l", "a", "n", "c", "e", "r" >>,
     Octavia |->
        << "O", "c", "t", "a", "v", "i", "a" >>,
     dhcp |->
        << "n", "e", "t", "w", "o", "r", "k", ":", "d", "h", "c", "p" >>,
     none |-> << >>]
Owners == { Owner[f] : f \in DOMAIN Owner }

\* The forms of port p1: every owner with a device_id that is indexed (d1,
\* d2), unknown (d9), empty or None; fixed IPs on an indexed subnet (s1), on
\* an unknown one (s9), without subnet_id, and with an entry that is no dict;
\* security groups as ids under either attribute, as embedded objects, and
\* as both; an indexed, an unknown and an empty qos_policy_id.
BindingPorts ==
    { [PlainPort("p1") EXCEPT !.device_owner = o, !.device_id = d] :
        o \in Owners, d \in {"d1", "d2", "d9", "", None} }
FieldPorts ==
    { [PlainPort("p1") EXCEPT !.fixed_ips = f] :
        f \in { << FixedIpDict("10.0.0.5", "s1") >>,
                << FixedIpDict("10.0.0.5", "s9") >>,
                << FixedIpDict("10.0.0.5", None) >>,
                << FixedIpDict("10.0.0.5", "s1"), FixedIpDict("10.0.0.6", "s9") >>,
                << FixedIpDict("10.0.0.5", "s1"), FixedIpBare >> } }
      \cup
    { [PlainPort("p1") EXCEPT !.security_group_ids = g[1],
                              !.security_groups = g[2]] :
        g \in { << << SgId("sg1"), SgId("sg2") >>, << >> >>,
                << << SgId("sg9") >>, << >> >>,
                << << >>, << SgId("sg1") >> >>,
                << << >>, << SgObject("sg1") >> >>,
                << << SgId("sg1") >>, << SgObject("sg2") >> >> } }
      \cup
    { [PlainPort("p1") EXCEPT !.qos_policy_id = q] : q \in {"q1", "q9", ""} }

\* The port lists of the diagnostics specification: p1 in one of the forms
\* above, before or after the plain port p2.
DiagPortLists ==
    { << x, PlainPort("p2") >> : x \in BindingPorts \cup FieldPorts }
      \cup
    { << PlainPort("p2"), x >> : x \in FieldPorts }

-----------------------------------------------------------------------------
(* get_binding_attr on its own *)

\* A dict (or an attribute table) that holds val under key, or does not hold
\* the key when val is Absent.
Absent == "<absent>"
With(d, key, val) == IF val = Absent THEN d ELSE Put(d, key, val)

\* The ports handed to get_binding_attr: the flattened attribute
\* binding_host_id missing, None, empty or a host; to_dict failing, or
\* returning a dict where the namespaced key and the flattened key are each
\* missing, None or a host.
BoundPorts ==
    LET alt == replace(BindingKey.host_id, ":", "_")
    IN  { [PlainPort("p1") EXCEPT !.attrs = With(EmptyDict, alt, a),
                                  !.to_dict = t] :
            a \in {Absent, None, "", "hostA"},
            t \in {Raises} \cup
                  { Returned(With(With(EmptyDict, BindingKey.host_id, n),
                                  alt, f)) :
                      n \in {Absent, None, "hostB"},
                      f \in {Absent, None, "hostA", "hostC"} } }

\* One call get_binding_attr(port, key).
GetBindingAttr ==
    /\ bkey = << >>
    /\ \E key \in { BindingKey[f] : f \in DOMAIN BindingKey } :
         /\ bkey' = key
         /\ bval' = get_binding_attr(bport, key)
    /\ UNCHANGED << resolverVars, trunkVars, diagVars, headerVars, usageVars,
                    overviewVars, bport >>

-----------------------------------------------------------------------------
(* compute_usage, tier 1: the absolute limits *)

\* Bound of the server collection.
MaxServers == 2

\* The three usage keys of the absolute limits.
LimitKeys == {"totalInstancesUsed", "totalCoresUsed", "totalRAMUsed"}

\* The value each key carries when the limits report it.
LimitVal == [k1 \in LimitKeys |->
                CASE k1 = "totalInstancesUsed" -> 3
                  [] k1 = "totalCoresUsed" -> 6
                  [] k1 = "totalRAMUsed" -> 12288]

\* The absolute-limits objects get_limits() may return: an object carrying
\* the keys as attributes ("obj") or a mapping with .get ("dict"); each key
\* is missing, null or a number.
LimitsObjects ==
    { [form |-> f,
       vals |-> [k1 \in K |-> IF k1 \in P THEN IntV(LimitVal[k1]) ELSE Null]] :
        f \in {"obj", "dict"}, K \in SUBSET LimitKeys, P \in SUBSET LimitKeys }
      \cup
    { [form |-> "dict", vals |-> [k1 \in LimitKeys |-> IntV(0)]] }

\* The outcome of conn.compute.get_limits(): it raised, or returned an object.
LimitsResponses ==
    { [raised |-> TRUE] } \cup
    { [raised |-> FALSE, absolute |-> o] : o \in LimitsObjects }

\* A getv without the mapping branch: only attributes are read.
getv_AttrOnly(abs_lim, key) ==
    IF abs_lim.form = "obj" /\ key \in DOMAIN abs_lim.vals
    THEN abs_lim.vals[key]
    ELSE Null

\* getv(k), lines 150-152: the attribute when the object has it, else
\* .get(k, None) when the object has a get, else None.
getv(abs_lim, key) ==
    IF abs_lim.form = "obj" /\ key \in DOMAIN abs_lim.vals
    THEN abs_lim.vals[key]
    ELSE IF abs_lim.form = "dict"
         THEN Get(abs_lim.vals, key, Null)
         ELSE Null

\* int(v) of an integer.
int(v) == v[1]

\* A call made on conn.compute, as logged in calls.
Call(op, arg) == [op |-> op, arg |-> arg]

\* Lines 146-157 on the answer resp of get_limits(), from the locals
\* loc = [iu, cu, ru]: the locals after the tier, and the returned triple or
\* the fall through to tier 2.  A raising call leaves the locals unassigned.
Tier1Outcome(resp, loc) ==
    IF resp.raised
    THEN [pc |-> "tier2", iu |-> loc.iu, cu |-> loc.cu, ru |-> loc.ru,
          result |-> Null]
    ELSE LET i == getv(resp.absolute, "totalInstancesUsed")
             c == getv(resp.absolute, "totalCoresUsed")
             r == getv(resp.absolute, "totalRAMUsed")
         IN  IF i /= Null /\ c /= Null /\ r /= Null
             THEN [pc |-> "done", iu |-> i, cu |-> c, ru |-> r,
                   result |-> << int(i), int(c), int(r) >>]
             ELSE [pc |-> "tier2", iu |-> i, cu |-> c, ru |-> r,
                   result |-> Null]

\* The locals iu, cu, ru as a record.
Locals == [iu |-> iu, cu |-> cu, ru |-> ru]

\* Tier 1 with the answers of get_limits() drawn from Resps.
Tier1(Resps) ==
    /\ pc = "tier1"
    /\ \E resp \in Resps :
         LET o == Tier1Outcome(resp, Locals)
         IN  /\ limits' = resp
             /\ calls' = Append(calls, Call("get_limits", None))
             /\ iu' = o.iu /\ cu' = o.cu /\ ru' = o.ru
             /\ result' = o.result
             /\ pc' = o.pc
    /\ UNCHANGED << bindingVars, overviewVars >>
    /\ UNCHANGED << resolverVars, trunkVars, diagVars, headerVars,
                    servers, flavor_by_id, cache0, flavorSvc,
                    qset, live, k >>

-----------------------------------------------------------------------------
(* compute_usage, tier 2: the quota set with usage *)

\* The three quota names.
QuotaNames == {"instances", "cores", "ram"}

\* The usage each quota name carries when the quota set reports it.
QuotaVal == [n \in QuotaNames |->
                CASE n = "instances" -> 5
                  [] n = "cores" -> 10
                  [] n = "ram" -> 2048]

\* What the quota set holds for one name n:
\*   flat     the value under "<n>_in_use" of the dict form (None when missing)
\*   sub      the value under "<n>" of the dict form
\*   attr     the attribute "<n>_in_use" of the object (None when missing)
\*   attrsub  the attribute "<n>" of the object
\* A value under "<n>" is nothing, a number (the plain limit) or a dict.
NoSub == [t |-> "none", d |-> EmptyDict]
IntSub == [t |-> "int", d |-> EmptyDict]
DictSub(d) == [t |-> "dict", d |-> d]

\* Python truthiness of a value under "<n>": a non-empty dict, a limit.
SubTruthy(sub) == sub.t = "int" \/ (sub.t = "dict" /\ DOMAIN sub.d /= {})

QMissing == [flat |-> Null, sub |-> NoSub, attr |-> Null, attrsub |-> NoSub]
QFlat(v) == [QMissing EXCEPT !.flat = IntV(v)]
QNestedInUse(v) ==
    [QMissing EXCEPT !.sub = DictSub([x \in {"in_use", "limit"} |->
                                         IF x = "in_use" THEN IntV(v) ELSE IntV(20)])]
QNestedUsed(v) ==
    [QMissing EXCEPT !.sub = DictSub([x \in {"used"} |-> IntV(v)])]
QNestedNullThenAttr(v) ==
    [QMissing EXCEPT !.sub = DictSub([x \in {"in_use"} |-> Null]),
                     !.attr = IntV(v)]
QAttrOnly(v) == [QMissing EXCEPT !.attr = IntV(v)]
QEmptySubThenAttrSub(v) ==
    [QMissing EXCEPT !.sub = DictSub(EmptyDict),
                     !.attrsub = DictSub([x \in {"in_use"} |-> IntV(v)])]
QLimitThenAttr(v) == [QMissing EXCEPT !.sub = IntSub, !.attr = IntV(v)]
QFlatZero == [QMissing EXCEPT !.flat = IntV(0)]

\* Every form a name's usage may take.
QShapes(n) ==
    { QMissing, QFlat(QuotaVal[n]), QNestedInUse(QuotaVal[n]),
      QNestedUsed(QuotaVal[n]), QNestedNullThenAttr(QuotaVal[n]),
      QAttrOnly(QuotaVal[n]), QEmptySubThenAttrSub(QuotaVal[n]),
      QLimitThenAttr(QuotaVal[n]), QFlatZero }

\* The forms drawn for cores and ram: present, missing, raising.
QFewShapes(n) ==
    { QMissing, QFlat(QuotaVal[n]), QNestedNullThenAttr(QuotaVal[n]) }

\* The quota sets get_quota_set() may return.  kind "resource": to_dict()
\* works and the object has attributes; "dict": a plain dict (no to_dict, no
\* attributes); "opaque": to_dict() fails and it is no dict; "none": None.
QuotaObjects ==
    { [kind |-> "resource", data |-> d] :
        d \in { [n \in QuotaNames |->
                   CASE n = "instances" -> x
                     [] n = "cores" -> y
                     [] n = "ram" -> z] :
                x \in QShapes("instances"), y \in QFewShapes("cores"),
                z \in {QMissing, QFlat(QuotaVal["ram"])} } }
      \cup
    { [kind |-> kd, data |-> [n \in QuotaNames |-> sh[n]]] :
        kd \in {"dict", "opaque", "none"},
        sh \in { [n \in QuotaNames |-> QFlat(QuotaVal[n])],
                 [n \in QuotaNames |-> QAttrOnly(QuotaVal[n])],
                 [n \in QuotaNames |-> QNestedUsed(QuotaVal[n])] } }

\* The outcome of conn.compute.get_quota_set(project_id, usage=True).
QuotaResponses ==
    { [raised |-> TRUE] } \cup
    { [raised |-> FALSE, qset |-> o] : o \in QuotaObjects }

\* qd.get(key), lines 162-167: qd is qset.to_dict(), or qset itself when it
\* is a dict, or {}.
QdFlat(q, name) ==
    IF q.kind \in {"resource", "dict"} THEN q.data[name].flat ELSE Null
QdSub(q, name) ==
    IF q.kind \in {"resource", "dict"} THEN q.data[name].sub ELSE NoSub

\* getattr(qset, key, None): a plain dict and None have no such attribute.
AttrInUse(q, name) ==
    IF q.kind \in {"resource", "opaque"} THEN q.data[name].attr ELSE Null
AttrSub(q, name) ==
    IF q.kind \in {"resource", "opaque"} THEN q.data[name].attrsub ELSE NoSub

\* The result of a pick: a value (or None), or an exception.
Picked(v) == [raised |-> FALSE, val |-> v]
PickRaised == [raised |-> TRUE, val |-> Null]

\* int(v) inside pick_in_use: int(None) raises TypeError.
PickInt(v) == IF v = Null THEN PickRaised ELSE Picked(IntV(int(v)))

\* pick_in_use(name), lines 169-183.
pick_in_use(q, name) ==
    IF QdFlat(q, name) /= Null
    THEN PickInt(QdFlat(q, name))
    ELSE LET sub == IF SubTruthy(QdSub(q, name)) THEN QdSub(q, name)
                                                 ELSE AttrSub(q, name)
         IN  IF sub.t = "dict" /\ "in_use" \in DOMAIN sub.d
             THEN PickInt(sub.d["in_use"])
             ELSE IF sub.t = "dict" /\ "used" \in DOMAIN sub.d
             THEN PickInt(sub.d["used"])
             ELSE IF AttrInUse(q, name) /= Null
                  THEN PickInt(AttrInUse(q, name))
                  ELSE Picked(Null)

\* Python `a or b` on optional integers (None and 0 are falsy).
OrInt(a, b) == IF a /= Null /\ a /= IntV(0) THEN a ELSE b

\* A tier 2 whose picks fall back to what the locals already hold
\* (`iu = pick_in_use("instances") or iu`, and so on).
Tier2Outcome_FallbackToLocals(resp, loc) ==
    IF resp.raised
    THEN [pc |-> "tier3", iu |-> loc.iu, cu |-> loc.cu, ru |-> loc.ru,
          result |-> Null]
    ELSE LET i == pick_in_use(resp.qset, "instances")
             c == pick_in_use(resp.qset, "cores")
             r == pick_in_use(resp.qset, "ram")
             iv == OrInt(i.val, loc.iu)
             cv == OrInt(c.val, loc.cu)
             rv == OrInt(r.val, loc.ru)
         IN  IF i.raised \/ c.raised \/ r.raised
             THEN [pc |-> "tier3", iu |-> loc.iu, cu |-> loc.cu,
                   ru |-> loc.ru, result |-> Null]
             ELSE IF iv /= Null /\ cv /= Null /\ rv /= Null
             THEN [pc |-> "done", iu |-> iv, cu |-> cv, ru |-> rv,
                   result |-> << int(iv), int(cv), int(rv) >>]
             ELSE [pc |-> "tier3", iu |-> iv, cu |-> cv, ru |-> rv,
                   result |-> Null]

\* A tier 2 without the enclosing try: an exception of a pick propagates.
Tier2Outcome_NoTry(resp, loc) ==
    IF resp.raised
    THEN [pc |-> "tier3", iu |-> loc.iu, cu |-> loc.cu, ru |-> loc.ru,
          result |-> Null]
    ELSE LET i == pick_in_use(resp.qset, "instances")
             c == pick_in_use(resp.qset, "cores")
             r == pick_in_use(resp.qset, "ram")
         IN  IF i.raised \/ c.raised \/ r.raised
             THEN [pc |-> "raised", iu |-> loc.iu, cu |-> loc.cu,
                   ru |-> loc.ru, result |-> Null]
             ELSE IF i.val /= Null /\ c.val /= Null /\ r.val /= Null
             THEN [pc |-> "done", iu |-> i.val, cu |-> c.val, ru |-> r.val,
                   result |-> << int(i.val), int(c.val), int(r.val) >>]
             ELSE [pc |-> "tier3", iu |-> i.val, cu |-> c.val, ru |-> r.val,
                   result |-> Null]

\* Lines 159-191 on the answer resp of get_quota_set(): the three picks are
\* assigned to iu, cu, ru in turn; an exception of a pick ends the tier with
\* the locals assigned so far; the triple is returned when none is None.
Tier2Outcome(resp, loc) ==
    IF resp.raised
    THEN [pc |-> "tier3", iu |-> loc.iu, cu |-> loc.cu, ru |-> loc.ru,
          result |-> Null]
    ELSE LET i == pick_in_use(resp.qset, "instances")
             c == pick_in_use(resp.qset, "cores")
             r == pick_in_use(resp.qset, "ram")
         IN  IF i.raised
             THEN [pc |-> "tier3", iu |-> loc.iu, cu |-> loc.cu,
                   ru |-> loc.ru, result |-> Null]
             ELSE IF c.raised
             THEN [pc |-> "tier3", iu |-> i.val, cu |-> loc.cu,
                   ru |-> loc.ru, result |-> Null]
             ELSE IF r.raised
             THEN [pc |-> "tier3", iu |-> i.val, cu |-> c.val,
                   ru |-> loc.ru, result |-> Null]
             ELSE IF i.val /= Null /\ c.val /= Null /\ r.val /= Null
             THEN [pc |-> "done", iu |-> i.val, cu |-> c.val, ru |-> r.val,
                   result |-> << int(i.val), int(c.val), int(r.val) >>]
             ELSE [pc |-> "tier3", iu |-> i.val, cu |-> c.val, ru |-> r.val,
                   result |-> Null]

\* Tier 2 with the answers of get_quota_set() drawn from Resps.
Tier2(Resps) ==
    /\ pc = "tier2"
    /\ \E resp \in Resps :
         LET o == Tier2Outcome(resp, Locals)
         IN  /\ qset' = resp
             /\ calls' = Append(calls, Call("get_quota_set", None))
             /\ iu' = o.iu /\ cu' = o.cu /\ ru' = o.ru
             /\ result' = o.result
             /\ pc' = o.pc
    /\ UNCHANGED << bindingVars, overviewVars >>
    /\ UNCHANGED << resolverVars, trunkVars, diagVars, headerVars,
                    servers, flavor_by_id, cache0, flavorSvc,
                    limits, live, k >>

-----------------------------------------------------------------------------
(* compute_usage, tier 3: the sum over the servers *)

\* str.upper() on the status strings of the model.
Upper(str) ==
    CASE str = "active" -> "ACTIVE"
      [] str = "deleted" -> "DELETED"
      [] str = "Soft_Deleted" -> "SOFT_DELETED"
      [] OTHER -> str

\* A liveness test that compares the status as it is written.
IsLive_CaseSensitive(s) == Or(s.status, "") \notin {"DELETED", "SOFT_DELETED"}

\* (getattr(s, "status", "") or "").upper() not in ("DELETED", "SOFT_DELETED")
IsLive(s) == Upper(Or(s.status, "")) \notin {"DELETED", "SOFT_DELETED"}

\* live = [s for s in servers if ...], line 194.
RECURSIVE LiveOf(_)
LiveOf(ss) ==
    IF ss = << >> THEN << >>
    ELSE IF IsLive(Head(ss)) THEN << Head(ss) >> \o LiveOf(Tail(ss))
         ELSE LiveOf(Tail(ss))

\* Flavor ids, and the flavor the compute service and the cache hold for an
\* id.
FlavorIds == {"f1"}
FlavorOf(fid) == [id |-> fid, vcpus |-> IntV(4), ram |-> IntV(8192)]

\* s.flavor: an embedded dict (kind "dict") with vcpus, ram and id each
\* possibly missing, an object with an id attribute (kind "obj"), None
\* (kind "none"), or an attribute whose access raises (kind "raises").
FlavorEmbedded == [kind |-> "dict", vcpus |-> IntV(2), ram |-> IntV(4096), id |-> None]
FlavorDictId(fid) == [kind |-> "dict", vcpus |-> Null, ram |-> Null, id |-> fid]
FlavorPartial(fid) == [kind |-> "dict", vcpus |-> IntV(2), ram |-> Null, id |-> fid]
FlavorObjId(fid) == [kind |-> "obj", vcpus |-> Null, ram |-> Null, id |-> fid]
FlavorNone == [kind |-> "none", vcpus |-> Null, ram |-> Null, id |-> None]
FlavorRaises == [kind |-> "raises", vcpus |-> Null, ram |-> Null, id |-> None]

\* The servers of the enumeration specification: every live status with
\* every flavor form, and deleted servers with and without embedded flavor.
ServerPool ==
    { [status |-> st, flavor |-> fl] :
        st \in {None, "active"},
        fl \in {FlavorEmbedded, FlavorDictId("f1"), FlavorPartial("f1"),
                FlavorObjId("f1"), FlavorNone, FlavorRaises} }
      \cup
    { [status |-> st, flavor |-> fl] :
        st \in {"deleted", "SOFT_DELETED", "Soft_Deleted"},
        fl \in {FlavorEmbedded, FlavorDictId("f1")} }

\* The servers of the tier-selection specification.
FewServers ==
    { [status |-> "active", flavor |-> FlavorDictId("f1")],
      [status |-> "deleted", flavor |-> FlavorEmbedded] }

\* The answers of conn.compute.get_flavor(fid): it raises, returns None, or
\* returns the flavor.
FlavorAnswers(fid) ==
    { [out |-> "raise"], [out |-> "none"], [out |-> "ok", flavor |-> FlavorOf(fid)] }

\* The flavor caches handed to compute_usage: any part of the flavors.
FlavorCaches == UNION { { [f \in F |-> FlavorOf(f)] } : F \in SUBSET FlavorIds }

\* A loop iteration that reads the embedded numbers only and never looks
\* the flavor up by id.
ServerStep_EmbeddedOnly(s, st) ==
    LET isdict == s.flavor.kind = "dict"
        vcpus == IF isdict THEN s.flavor.vcpus ELSE Null
        ram == IF isdict THEN s.flavor.ram ELSE Null
    IN  [cu    |-> st.cu + (IF vcpus = Null THEN 0 ELSE int(vcpus)),
         ru    |-> st.ru + (IF ram = Null THEN 0 ELSE int(ram)),
         cache |-> st.cache,
         fetched |-> << >>]

\* One iteration of `for s in live`, lines 198-230, on server s, from the
\* loop state st = [cu, ru, cache]: the sums and the cache after it, and the
\* flavor ids fetched.  vcpus and ram come from the embedded dict; when one
\* is None the flavor id is looked up in the cache and, when the cache has
\* nothing, fetched (and cached under the fetched flavor's id); int(x or 0)
\* is added to the sums.
ServerStep(s, st) ==
    LET isdict == s.flavor.kind = "dict"
        vcpus0 == IF isdict THEN s.flavor.vcpus ELSE Null
        ram0 == IF isdict THEN s.flavor.ram ELSE Null
        need == vcpus0 = Null \/ ram0 = Null
        fid == IF s.flavor.kind \in {"dict", "obj"} THEN s.flavor.id ELSE None
        lookup == need /\ Truthy(fid)
        cached == lookup /\ fid \in DOMAIN st.cache
        fetch == lookup /\ ~cached
        ans == IF fetch THEN flavorSvc[fid] ELSE [out |-> "none"]
        found == cached \/ (fetch /\ ans.out = "ok")
        vcpus == IF found /\ vcpus0 = Null
                 THEN (IF cached THEN st.cache[fid].vcpus ELSE ans.flavor.vcpus)
                 ELSE vcpus0
        ram == IF found /\ ram0 = Null
               THEN (IF cached THEN st.cache[fid].ram ELSE ans.flavor.ram)
               ELSE ram0
    IN  [cu    |-> st.cu + (IF vcpus = Null THEN 0 ELSE int(vcpus)),
         ru    |-> st.ru + (IF ram = Null THEN 0 ELSE int(ram)),
         cache |-> IF fetch /\ ans.out = "ok"
                   THEN Put(st.cache, ans.flavor.id, ans.flavor) ELSE st.cache,
         fetched |-> IF fetch THEN << fid >> ELSE << >>]

\* Lines 193-197: the live servers, and iu, cu, ru set from them.
Tier3Start ==
    /\ pc = "tier3"
    /\ live' = LiveOf(servers)
    /\ iu' = IntV(Len(LiveOf(servers)))
    /\ cu' = IntV(0)
    /\ ru' = IntV(0)
    /\ k' = 1
    /\ pc' = "loop"
    /\ UNCHANGED << bindingVars, overviewVars >>
    /\ UNCHANGED << resolverVars, trunkVars, diagVars, headerVars,
                    servers, flavor_by_id, cache0, flavorSvc,
                    limits, qset, calls, result >>

\* One iteration of the loop over live.
Tier3Server ==
    /\ pc = "loop"
    /\ k <= Len(live)
    /\ LET o == ServerStep(live[k], [cu |-> int(cu), ru |-> int(ru),
                                     cache |-> flavor_by_id])
       IN  /\ cu' = IntV(o.cu)
           /\ ru' = IntV(o.ru)
           /\ flavor_by_id' = o.cache
           /\ calls' = calls \o [j \in 1..Len(o.fetched) |->
                                    Call("get_flavor", o.fetched[j])]
    /\ k' = k + 1
    /\ UNCHANGED << bindingVars, overviewVars >>
    /\ UNCHANGED << resolverVars, trunkVars, diagVars, headerVars,
                    servers, cache0, flavorSvc,
                    limits, qset, iu, live, result, pc >>

\* Line 231: return iu, cu, ru.
Tier3Return ==
    /\ pc = "loop"
    /\ k > Len(live)
    /\ result' = << int(iu), int(cu), int(ru) >>
    /\ pc' = "done"
    /\ UNCHANGED << bindingVars, overviewVars >>
    /\ UNCHANGED << resolverVars, trunkVars, diagVars, headerVars,
                    servers, flavor_by_id, cache0, flavorSvc,
                    limits, qset, iu, cu, ru, live, k, calls >>

-----------------------------------------------------------------------------
(* main of project-overview.py: the compute quota maxima of the header *)

\* str(n) on an integer: the decimal numeral, with a minus sign below zero.
RECURSIVE str(_)
str(n) ==
    LET Digits == << "0", "1", "2", "3", "4", "5", "6", "7", "8", "9" >>
    IN  IF n < 0 THEN "-" \o str(0 - n)
        ELSE IF n < 10 THEN Digits[n + 1]
        ELSE str(n \div 10) \o Digits[(n % 10) + 1]

\* The one-character string U+221E (the infinity sign) limit_str returns.
Infinity == "U+221E"

\* A limit_str that takes only None for unbounded.
limit_str_NoneOnly(v) == IF v = Null THEN Infinity ELSE str(int(v))

\* limit_str(v), lines 66-69.
limit_str(v) == IF v = IntV(0 - 1) \/ v = Null THEN Infinity ELSE str(int(v))

\* The maxima a quota set or the absolute limits may carry: none (None),
\* unlimited (-1), zero, and a finite number.
MaxValues == { Null, IntV(0 - 1), IntV(0), IntV(10) }

\* The outcome of conn.compute.get_quota_set(project_id), line 561: a failure,
\* or an object whose attributes instances, cores, ram are read with
\* getattr(.., None).
MaxQuotaSetResponses ==
    { [raised |-> TRUE] } \cup
    { [raised |-> FALSE, instances |-> i, cores |-> c, ram |-> r] :
        i \in MaxValues, c \in MaxValues, r \in MaxValues }

\* The keys of the absolute limits that hold maxima.
MaxKeys == {"maxTotalInstances", "maxTotalCores", "maxTotalRAMSize"}

\* The outcome of the fallback conn.compute.get_limits(), line 568: a
\* failure, or limits whose absolute part is an object or a mapping holding
\* some of the keys, each with one of the values.
MaxLimitsResponses ==
    { [raised |-> TRUE] } \cup
    { [raised |-> FALSE,
       absolute |-> [form |-> f, vals |-> [k1 \in K |-> v]]] :
        f \in {"obj", "dict"}, K \in SUBSET MaxKeys, v \in MaxValues }

\* Lines 559-565: the maxima from the quota set.
MainQuotaSet ==
    /\ mpc = "quota"
    /\ \E resp \in MaxQuotaSetResponses :
         /\ maxQuotaSet' = resp
         /\ IF resp.raised
            THEN /\ UNCHANGED << max_instances, max_cores, max_ram_mb >>
                 /\ mpc' = "limits"
            ELSE /\ max_instances' = resp.instances
                 /\ max_cores' = resp.cores
                 /\ max_ram_mb' = resp.ram
                 /\ mpc' = "header"
    /\ UNCHANGED << bindingVars, overviewVars >>
    /\ UNCHANGED << resolverVars, trunkVars, diagVars, usageVars, maxLimits,
                    compute_header >>

\* Lines 566-577: the fallback to the maxima of the absolute limits; a
\* failure leaves the three locals None.
MainLimits ==
    /\ mpc = "limits"
    /\ \E resp \in MaxLimitsResponses :
         /\ maxLimits' = resp
         /\ IF resp.raised
            THEN UNCHANGED << max_instances, max_cores, max_ram_mb >>
            ELSE /\ max_instances' = getv(resp.absolute, "maxTotalInstances")
                 /\ max_cores' = getv(resp.absolute, "maxTotalCores")
                 /\ max_ram_mb' = getv(resp.absolute, "maxTotalRAMSize")
    /\ mpc' = "header"
    /\ UNCHANGED << bindingVars, overviewVars >>
    /\ UNCHANGED << resolverVars, trunkVars, diagVars, usageVars, maxQuotaSet,
                    compute_header >>

\* Lines 582-588: the header line; of the f-string the three rendered maxima
\* are kept.  (compute_usage, called in between at line 580, reads and
\* writes none of the maxima.)
MainHeader ==
    /\ mpc = "header"
    /\ compute_header' = << limit_str(max_instances), limit_str(max_cores),
                            limit_str(max_ram_mb) >>
    /\ mpc' = "printed"
    /\ UNCHANGED << bindingVars, overviewVars >>
    /\ UNCHANGED << resolverVars, trunkVars, diagVars, usageVars, maxQuotaSet,
                    maxLimits, max_instances, max_cores, max_ram_mb >>

-----------------------------------------------------------------------------
(* main of project-overview.py: the networking fetches, quota and header *)

\* The project the overview is about (project_id), and another one.
Project == [own |-> "proj", other |-> "admin"]

\* A network as lines 324-329 and 348 read it.
Network(id, project_id, is_router_external, is_shared) ==
    [id |-> id, project_id |-> project_id,
     is_router_external |-> is_router_external, is_shared |-> is_shared]

\* A resource of which main reads the project only.
Owned(id, project_id) == [id |-> id, project_id |-> project_id]

\* What the calls on conn.network may answer: a failure, or a list.  The
\* networks are the project's own one, an external one and a shared one of
\* another project; the subnets are an own and a foreign one.
NetFetches ==
    [networks |->
        { Raised,
          Fetched(<< Network("n1", Project.own, FALSE, FALSE),
                     Network("n2", Project.own, TRUE, FALSE),
                     Network("n3", Project.other, FALSE, TRUE) >>) },
     subnets |->
        { Raised,
          Fetched(<< Owned("s1", Project.own), Owned("s2", Project.other) >>) },
     ports |-> { Raised, Fetched(<< Owned("p1", Project.own) >>) },
     routers |-> { Raised, Fetched(<< Owned("r1", Project.own) >>) },
     security_groups |->
        { Raised,
          Fetched(<< Owned("sg1", Project.own), Owned("sg2", Project.own) >>) },
     ips |-> { Raised, Fetched(<< Owned("f1", Project.own) >>) },
     floating_ips |->
        { Raised,
          Fetched(<< Owned("f1", Project.own), Owned("f2", Project.own) >>) }]

\* Lines 295-299: the networks and the subnets are fetched inside one try
\* block; when conn.network.networks() raises, subnets() is not called.
MainNetworks ==
    /\ mpc = "networks"
    /\ \E n \in NetFetches.networks, s \in NetFetches.subnets :
         LET sub == IF n.raised THEN NotCalled ELSE s
         IN  /\ netSvc' = [netSvc EXCEPT !.networks = n, !.subnets = sub]
             /\ IF n.raised \/ sub.raised
                THEN all_networks' = << >> /\ all_subnets' = << >>
                ELSE all_networks' = n.items /\ all_subnets' = sub.items
    /\ mpc' = "ports"
    /\ UNCHANGED << resolverVars, trunkVars, diagVars, usageVars, bindingVars,
                    maxQuotaSet, maxLimits, max_instances, max_cores,
                    max_ram_mb, compute_header, project_ports,
                    project_routers, project_sgs, project_fips, neutron_quota,
                    networking_header, cinderSvc, cinder_header >>

\* Lines 304-307: the ports of the project.
MainPorts ==
    /\ mpc = "ports"
    /\ \E a \in NetFetches.ports :
         /\ netSvc' = [netSvc EXCEPT !.ports = a]
         /\ project_ports' = IF a.raised THEN << >> ELSE a.items
    /\ mpc' = "routers"
    /\ UNCHANGED << resolverVars, trunkVars, diagVars, usageVars, bindingVars,
                    maxQuotaSet, maxLimits, max_instances, max_cores,
                    max_ram_mb, compute_header, all_networks, all_subnets,
                    project_routers, project_sgs, project_fips, neutron_quota,
                    networking_header, cinderSvc, cinder_header >>

\* Lines 308-311: the routers of the project.
MainRouters ==
    /\ mpc = "routers"
    /\ \E a \in NetFetches.routers :
         /\ netSvc' = [netSvc EXCEPT !.routers = a]
         /\ project_routers' = IF a.raised THEN << >> ELSE a.items
    /\ mpc' = "security_groups"
    /\ UNCHANGED << resolverVars, trunkVars, diagVars, usageVars, bindingVars,
                    maxQuotaSet, maxLimits, max_instances, max_cores,
                    max_ram_mb, compute_header, all_networks, all_subnets,
                    project_ports, project_sgs, project_fips, neutron_quota,
                    networking_header, cinderSvc, cinder_header >>

\* Lines 312-315: the security groups of the project.
MainSecurityGroups ==
    /\ mpc = "security_groups"
    /\ \E a \in NetFetches.security_groups :
         /\ netSvc' = [netSvc EXCEPT !.security_groups = a]
         /\ project_sgs' = IF a.raised THEN << >> ELSE a.items
    /\ mpc' = "ips"
    /\ UNCHANGED << resolverVars, trunkVars, diagVars, usageVars, bindingVars,
                    maxQuotaSet, maxLimits, max_instances, max_cores,
                    max_ram_mb, compute_header, all_networks, all_subnets,
                    project_ports, project_routers, project_fips,
                    neutron_quota, networking_header, cinderSvc,
                    cinder_header >>

\* Lines 316-322: the floating IPs, from ips() or, when that raises, from
\* floating_ips().
MainFloatingIps ==
    /\ mpc = "ips"
    /\ \E a \in NetFetches.ips, b \in NetFetches.floating_ips :
         LET alt == IF a.raised THEN b ELSE NotCalled
         IN  /\ netSvc' = [netSvc EXCEPT !.ips = a, !.floating_ips = alt]
             /\ project_fips' = IF ~a.raised THEN a.items
                                ELSE IF ~alt.raised THEN alt.items
                                ELSE << >>
    /\ mpc' = "neutron_quota"
    /\ UNCHANGED << resolverVars, trunkVars, diagVars, usageVars, bindingVars,
                    maxQuotaSet, maxLimits, max_instances, max_cores,
                    max_ram_mb, compute_header, all_networks, all_subnets,
                    project_ports, project_routers, project_sgs,
                    neutron_quota, networking_header, cinderSvc,
                    cinder_header >>

\* The resources of the networking header with the main and the alternate
\* key nq is asked for (lines 355-360).
NeutronKeys ==
    [networks |-> [main |-> "network", alt |-> "networks"],
     subnets |-> [main |-> "subnet", alt |-> "subnets"],
     routers |-> [main |-> "router", alt |-> "routers"],
     ports |-> [main |-> "port", alt |-> "ports"],
     secgroups |-> [main |-> "security_group", alt |-> "security_groups"],
     fips |-> [main |-> "floatingip", alt |-> "floating_ips"]]
NeutronResources == DOMAIN NeutronKeys

\* No quota object (neutron_quota = None).
NoQuota == [form |-> "none", vals |-> EmptyDict]

\* The quota objects conn.network.get_quota may return: an object whose
\* attributes, or a dict whose keys, are the main keys, the alternate keys,
\* both or none, every main key with one maximum and every alternate key with
\* one maximum.
NeutronQuotas ==
    { [form |-> f,
       vals |-> [key \in { NeutronKeys[r].main : r \in IF hm THEN NeutronResources
                                                       ELSE {} }
                          \cup
                          { NeutronKeys[r].alt : r \in IF ha THEN NeutronResources
                                                      ELSE {} }
                 |-> IF \E r \in NeutronResources : key = NeutronKeys[r].main
                     THEN m ELSE a]] :
        f \in {"obj", "dict"}, hm \in BOOLEAN, ha \in BOOLEAN,
        m \in MaxValues, a \in MaxValues }

\* nq(quota_obj, main, alt), lines 331-341.  An object without the two
\* attributes has no get either, so line 339 raises and nq returns None; on
\* a dict, `or` passes from a main value that is None or 0 to the alternate
\* key.
nq(quota_obj, main, alt) ==
    IF quota_obj.form = "none" THEN Null
    ELSE IF quota_obj.form = "dict" /\ DOMAIN quota_obj.vals = {} THEN Null
    ELSE IF quota_obj.form = "obj"
    THEN IF main \in DOMAIN quota_obj.vals THEN quota_obj.vals[main]
         ELSE IF Truthy(alt) /\ alt \in DOMAIN quota_obj.vals
         THEN quota_obj.vals[alt]
         ELSE Null
    ELSE LET v == Get(quota_obj.vals, main, Null)
         IN  IF v /= Null /\ v /= IntV(0) THEN v
             ELSE IF Truthy(alt) THEN Get(quota_obj.vals, alt, Null)
             ELSE Null

\* Lines 343-346: the networking quota of the project; None when the call
\* raises.
MainNeutronQuota ==
    /\ mpc = "neutron_quota"
    /\ \E a \in {Raised} \cup { [raised |-> FALSE, quota |-> q] :
                                 q \in NeutronQuotas } :
         /\ netSvc' = [netSvc EXCEPT !.get_quota = a]
         /\ neutron_quota' = IF a.raised THEN NoQuota ELSE a.quota
    /\ mpc' = "net_header"
    /\ UNCHANGED << resolverVars, trunkVars, diagVars, usageVars, bindingVars,
                    maxQuotaSet, maxLimits, max_instances, max_cores,
                    max_ram_mb, compute_header, all_networks, all_subnets,
                    project_ports, project_routers, project_sgs, project_fips,
                    networking_header, cinderSvc, cinder_header >>

\* len([x for x in xs if P(x)]).
CountIf(xs, P(_)) == Cardinality({ i \in 1..Len(xs) : P(xs[i]) })

\* Lines 348-353: the usage counts.
nets_used ==
    LET Mine(n) == n.project_id = Project.own /\ ~n.is_router_external
    IN  CountIf(all_networks, Mine)
subs_used ==
    LET Mine(sn) == sn.project_id = Project.own
    IN  CountIf(all_subnets, Mine)

\* Lines 348-370: the counts, the maxima and the header line; of the
\* f-string the six pairs used/limit are kept.  The listings that main
\* prints next (lines 372-556) change none of the values modelled here, and
\* the compute part starts at line 558.
MainNetworkingHeader ==
    /\ mpc = "net_header"
    /\ LET used == [networks |-> nets_used,
                    subnets |-> subs_used,
                    routers |-> Len(project_routers),
                    ports |-> Len(project_ports),
                    secgroups |-> Len(project_sgs),
                    fips |-> Len(project_fips)]
       IN  networking_header' =
               [r \in NeutronResources |->
                   [used |-> str(used[r]),
                    lim |-> limit_str(nq(neutron_quota, NeutronKeys[r].main,
                                         NeutronKeys[r].alt))]]
    /\ mpc' = "quota"
    /\ UNCHANGED << resolverVars, trunkVars, diagVars, usageVars, bindingVars,
                    maxQuotaSet, maxLimits, max_instances, max_cores,
                    max_ram_mb, compute_header, netSvc, all_networks,
                    all_subnets, project_ports, project_routers, project_sgs,
                    project_fips, neutron_quota, cinderSvc, cinder_header >>

-----------------------------------------------------------------------------
(* main of project-overview.py: the block-storage quota maxima *)

\* The attributes of the block-storage quota set that hold maxima.
CinderKeys == {"volumes", "snapshots", "backups", "gigabytes"}

\* What conn.block_storage.get_quota_set(project_id) may answer: a failure,
\* or a quota set carrying some of the attributes.
CinderQuotaSets ==
    { Raised } \cup
    { [raised |-> FALSE, vals |-> [key \in K |-> v]] :
        K \in { CinderKeys, {"volumes", "backups"}, {} }, v \in MaxValues }

\* Lines 736-775: the four maxima, read with getattr(qset, .., None) and left
\* None when the call raises; the backups fetch, which decides whether the
\* backups maximum is rendered at all; the header line, of which the four
\* rendered maxima are kept.
MainBlockStorage ==
    /\ mpc = "printed"
    /\ \E q \in CinderQuotaSets, b \in { Raised, Fetched(<< >>) } :
         LET lim(key) == IF q.raised THEN Null ELSE Get(q.vals, key, Null)
             backups_supported == ~b.raised
         IN  /\ cinderSvc' = [get_quota_set |-> q, backups |-> b]
             /\ cinder_header' =
                    [volumes |-> limit_str(lim("volumes")),
                     snapshots |-> limit_str(lim("snapshots")),
                     backups |-> IF backups_supported
                                 THEN limit_str(lim("backups")) ELSE "n/a",
                     gigabytes |-> limit_str(lim("gigabytes"))]
    /\ mpc' = "cinder_printed"
    /\ UNCHANGED << resolverVars, trunkVars, diagVars, usageVars, bindingVars,
                    maxQuotaSet, maxLimits, max_instances, max_cores,
                    max_ram_mb, compute_header, netSvc, all_networks,
                    all_subnets, project_ports, project_routers, project_sgs,
                    project_fips, neutron_quota, networking_header >>

-----------------------------------------------------------------------------
(* Specifications *)

\* The resolver state before anything is indexed.
ResolverIdle ==
    /\ _id = EmptyIndex
    /\ _name_to_ids = EmptyIndex

\* The ports-diagnostics run, not started, with no trunk service.
TrunksIdle ==
    /\ trunks = << >>
    /\ trunk_by_parent_port = EmptyDict
    /\ subport_to_trunk = EmptyDict
    /\ netTrunks = Raised
    /\ ports = << >>
    /\ rows = << >>
    /\ rpc = "idle"

\* The collections of __init__ not fetched, the flags not set.
DiagIdle ==
    /\ conn = [c \in Collections |-> NotCalled]
    /\ _have_qos = FALSE
    /\ _have_lb = FALSE
    /\ fips_by_port = EmptyDict

\* The compute-quota part of main not reached.
HeaderIdle ==
    /\ maxQuotaSet = NotCalled
    /\ maxLimits = NotCalled
    /\ max_instances = Null /\ max_cores = Null /\ max_ram_mb = Null
    /\ compute_header = << >>
    /\ mpc = "idle"

\* compute_usage not called.
UsageIdle ==
    /\ servers = << >>
    /\ flavor_by_id = EmptyDict
    /\ cache0 = EmptyDict
    /\ flavorSvc = EmptyDict
    /\ limits = NotCalled
    /\ qset = NotCalled
    /\ iu = Null /\ cu = Null /\ ru = Null
    /\ live = << >>
    /\ k = 0
    /\ calls = << >>
    /\ result = Null
    /\ pc = "idle"

\* get_binding_attr not called.
BindingIdle ==
    /\ bport = PlainPort("p1")
    /\ bkey = << >>
    /\ bval = None

\* The networking and block-storage parts of main not reached.
OverviewIdle ==
    /\ netSvc = [c \in DOMAIN NetFetches \cup {"get_quota"} |-> NotCalled]
    /\ all_networks = << >> /\ all_subnets = << >>
    /\ project_ports = << >> /\ project_routers = << >>
    /\ project_sgs = << >> /\ project_fips = << >>
    /\ neutron_quota = NoQuota
    /\ networking_header = << >>
    /\ cinderSvc = [get_quota_set |-> NotCalled, backups |-> NotCalled]
    /\ cinder_header = << >>

\* The name resolver under arbitrary sequences of indexing calls.
InitResolver ==
    /\ ResolverIdle /\ TrunksIdle /\ DiagIdle /\ HeaderIdle /\ UsageIdle
    /\ BindingIdle /\ OverviewIdle
NextResolver == IndexObj
SpecResolver == InitResolver /\ [][NextResolver]_vars

\* The trunk indexing of NameResolver.__init__ followed by build_rows, for
\* every trunk collection (or a failing trunk fetch) and port list.
InitTrunks ==
    /\ BindingIdle
    /\ OverviewIdle
    /\ ResolverIdle
    /\ HeaderIdle
    /\ UsageIdle
    /\ conn = [c \in Collections |-> NotCalled]
    /\ _have_qos = TRUE
    /\ _have_lb = TRUE
    /\ fips_by_port = EmptyDict
    /\ trunks = << >>
    /\ trunk_by_parent_port = EmptyDict
    /\ subport_to_trunk = EmptyDict
    /\ netTrunks \in {Raised} \cup {Fetched(ts) : ts \in TrunkLists}
    /\ ports \in PortLists
    /\ rows = << >>
    /\ rpc = "trunk"
NextTrunks == LoadTrunks \/ LoadFloatingIps({Raised}) \/ BuildRows
SpecTrunks == InitTrunks /\ [][NextTrunks]_vars

\* The whole ports-diagnostics run after the port fetch (main, lines
\* 347-348): NameResolver.__init__ call by call, every fetch succeeding or
\* failing, then build_rows on the port list.
InitDiag ==
    /\ BindingIdle
    /\ OverviewIdle
    /\ ResolverIdle
    /\ DiagIdle
    /\ HeaderIdle
    /\ UsageIdle
    /\ trunks = << >>
    /\ trunk_by_parent_port = EmptyDict
    /\ subport_to_trunk = EmptyDict
    /\ netTrunks \in
         { Raised,
           Fetched(<< [id |-> "t1", name |-> "tr", display_name |-> None,
                       port_id |-> "p2", sub_ports |-> << >>] >>) }
    /\ ports \in DiagPortLists
    /\ rows = << >>
    /\ rpc = "network"
NextDiag ==
    \/ LoadNetworks
    \/ LoadSubnets
    \/ LoadRouters
    \/ LoadSecurityGroups
    \/ LoadQosPolicies
    \/ LoadServers
    \/ LoadLoadBalancers
    \/ LoadTrunks
    \/ LoadFloatingIps(Fetches.ip)
    \/ BuildRows
SpecDiag == InitDiag /\ [][NextDiag]_vars

\* The compute-quota part of main: the quota set, the fallback, the header.
InitQuota ==
    /\ BindingIdle
    /\ OverviewIdle
    /\ ResolverIdle
    /\ TrunksIdle
    /\ DiagIdle
    /\ UsageIdle
    /\ maxQuotaSet = NotCalled
    /\ maxLimits = NotCalled
    /\ max_instances = Null /\ max_cores = Null /\ max_ram_mb = Null
    /\ compute_header = << >>
    /\ mpc = "quota"
NextQuota == MainQuotaSet \/ MainLimits \/ MainHeader
SpecQuota == InitQuota /\ [][NextQuota]_vars

\* get_binding_attr on every port form, for each of the three keys.
InitBinding ==
    /\ ResolverIdle
    /\ TrunksIdle
    /\ DiagIdle
    /\ HeaderIdle
    /\ UsageIdle
    /\ OverviewIdle
    /\ bport \in BoundPorts
    /\ bkey = << >>
    /\ bval = None
NextBinding == GetBindingAttr
SpecBinding == InitBinding /\ [][NextBinding]_vars

\* The networking part of main: every fetch succeeding or failing, the quota
\* call, the header.
InitNetworking ==
    /\ ResolverIdle
    /\ TrunksIdle
    /\ DiagIdle
    /\ UsageIdle
    /\ BindingIdle
    /\ OverviewIdle
    /\ maxQuotaSet = NotCalled
    /\ maxLimits = NotCalled
    /\ max_instances = Null /\ max_cores = Null /\ max_ram_mb = Null
    /\ compute_header = << >>
    /\ mpc = "networks"
NextNetworking ==
    \/ MainNetworks
    \/ MainPorts
    \/ MainRouters
    \/ MainSecurityGroups
    \/ MainFloatingIps
    \/ MainNeutronQuota
    \/ MainNetworkingHeader
SpecNetworking == InitNetworking /\ [][NextNetworking]_vars

\* The quota maxima of the three services as main renders them, from the
\* networking quota call on, after fetches that all succeeded: the
\* networking header, the compute header, the block-storage header.
InitLimits ==
    /\ ResolverIdle
    /\ TrunksIdle
    /\ DiagIdle
    /\ UsageIdle
    /\ BindingIdle
    /\ netSvc = [c \in DOMAIN NetFetches \cup {"get_quota"} |->
                    IF c \in {"get_quota", "floating_ips"} THEN NotCalled
                    ELSE CHOOSE a \in NetFetches[c] : ~a.raised]
    /\ all_networks = netSvc.networks.items
    /\ all_subnets = netSvc.subnets.items
    /\ project_ports = netSvc.ports.items
    /\ project_routers = netSvc.routers.items
    /\ project_sgs = netSvc.security_groups.items
    /\ project_fips = netSvc.ips.items
    /\ neutron_quota = NoQuota
    /\ networking_header = << >>
    /\ cinderSvc = [get_quota_set |-> NotCalled, backups |-> NotCalled]
    /\ cinder_header = << >>
    /\ maxQuotaSet = NotCalled
    /\ maxLimits = NotCalled
    /\ max_instances = Null /\ max_cores = Null /\ max_ram_mb = Null
    /\ compute_header = << >>
    /\ mpc = "neutron_quota"
NextLimits ==
    \/ MainNeutronQuota
    \/ MainNetworkingHeader
    \/ MainQuotaSet
    \/ MainLimits
    \/ MainHeader
    \/ MainBlockStorage
SpecLimits == InitLimits /\ [][NextLimits]_vars

-----------------------------------------------------------------------------
(* Claims on the name resolver (SpecResolver) *)

\* The ids a lookup may be asked about: indexed or not, empty, absent.
LookupIds == Ids \cup {"zz", "", None}

\* The ids of the currently indexed records of type typ whose name is name.
Holders(typ, name) ==
    {i \in DOMAIN _id[typ] : ObjName(_id[typ][i]) = name}

\* Whether oid is indexed for typ, its record has a name, and exactly one
\* currently indexed record of typ holds that name.
UniquelyNamed(typ, oid) ==
    /\ Truthy(oid)
    /\ oid \in DOMAIN _id[typ]
    /\ Truthy(ObjName(_id[typ][oid]))
    /\ Cardinality(Holders(typ, ObjName(_id[typ][oid]))) = 1

\* C1: after any sequence of indexing calls (re-indexing included), try_name
\* returns the record's name if and only if the id is indexed for the type,
\* the record has a name and exactly one currently indexed record of that type
\* holds that name; name_or_id then returns that same name.
C1_TryNameIffUniquelyNamed ==
    \A typ \in Types : \A oid \in LookupIds :
        IF UniquelyNamed(typ, oid)
        THEN /\ try_name(typ, oid) = ObjName(_id[typ][oid])
             /\ name_or_id(typ, oid) = ObjName(_id[typ][oid])
        ELSE try_name(typ, oid) = None

\* C2: for every type and every name held by two or more indexed records of
\* that type, try_name returns None for every id sharing the name and
\* name_or_id returns the raw id for each of them.
C2_AmbiguousNameGivesId ==
    \A typ \in Types : \A name \in Names :
        Cardinality(Holders(typ, name)) >= 2 =>
            \A i \in Holders(typ, name) :
                /\ try_name(typ, i) = None
                /\ name_or_id(typ, i) = i

\* C2 witness: networks n1 and n2 both named net-a and n3 named net-b; the
\* net-a ids resolve to themselves and n3 resolves to "net-b".
C2_Witness ==
    /\ Holders("network", "net-a") = {"n1", "n2"}
    /\ Holders("network", "net-b") = {"n3"}
    /\ name_or_id("network", "n1") = "n1"
    /\ name_or_id("network", "n2") = "n2"
    /\ name_or_id("network", "n3") = "net-b"

\* C3: for every type, also one never indexed, and every id that is not in
\* the index of that type, name_or_id returns the id unchanged, and the empty
\* string when the id is empty or absent.
C3_DanglingIdUnchanged ==
    \A typ \in Types : \A oid \in LookupIds :
        oid \notin DOMAIN _id[typ] =>
            name_or_id(typ, oid) = (IF oid \in {"", None} THEN "" ELSE oid)

\* C3 witness: some networks are indexed, n3 is not, nothing was ever indexed
\* as a trunk, and the dangling ids come back unchanged.
C3_Witness ==
    /\ DOMAIN _id["network"] = {"n1", "n2"}
    /\ DOMAIN _id["trunk"] = {}
    /\ name_or_id("network", "n3") = "n3"
    /\ name_or_id("trunk", "n1") = "n1"
    /\ name_or_id("network", None) = ""

-----------------------------------------------------------------------------
(* Claims on the trunk role (SpecTrunks) *)

\* The trunk collection the run fetched (empty when the fetch failed).
FetchedTrunks == netTrunks.items

\* Whether port id pid is the port_id of some trunk of the collection.
IsParentPort(pid) ==
    \E i \in 1..Len(FetchedTrunks) : FetchedTrunks[i].port_id = pid

\* Whether port id pid appears as port_id in some trunk's sub_ports list.
IsSubPort(pid) ==
    \E i \in 1..Len(FetchedTrunks) :
        \E j \in 1..Len(FetchedTrunks[i].sub_ports) :
            FetchedTrunks[i].sub_ports[j].port_id = pid

\* C9 as stated: the reported role is trunk-parent iff the port is the
\* port_id of some trunk, trunk-subport iff it appears in some trunk's
\* sub_ports list, and none otherwise.
C9_RoleIffAsStated ==
    rpc = "done" =>
        \A r \in 1..Len(rows) :
            /\ rows[r].trunk.kind = "TRUNK-PARENT" <=> IsParentPort(rows[r].id)
            /\ rows[r].trunk.kind = "TRUNK-SUBPORT" <=> IsSubPort(rows[r].id)
            /\ rows[r].trunk.kind = "" <=>
                   ~IsParentPort(rows[r].id) /\ ~IsSubPort(rows[r].id)

\* C9 (amended): the reported role is trunk-parent iff the port is the
\* port_id of some trunk, trunk-subport iff it appears in some trunk's
\* sub_ports list and is the port_id of no trunk, and none otherwise; every
\* port has one row.
C9_RoleIff ==
    rpc = "done" =>
        /\ Len(rows) = Len(ports)
        /\ \A r \in 1..Len(rows) :
            /\ rows[r].id = ports[r].id
            /\ rows[r].trunk.kind \in {"TRUNK-PARENT", "TRUNK-SUBPORT", ""}
            /\ rows[r].trunk.kind = "TRUNK-PARENT" <=> IsParentPort(rows[r].id)
            /\ rows[r].trunk.kind = "TRUNK-SUBPORT" <=>
                   IsSubPort(rows[r].id) /\ ~IsParentPort(rows[r].id)
            /\ rows[r].trunk.kind = "" <=>
                   ~IsParentPort(rows[r].id) /\ ~IsSubPort(rows[r].id)

\* C9 witness: a finished run that reports a parent, a subport and a port
\* without role, the subport being the second entry of its trunk's list.
C9_Witness ==
    /\ rpc = "done"
    /\ Len(rows) = 3
    /\ rows[1].trunk.kind = "TRUNK-SUBPORT"
    /\ rows[2].trunk.kind = "TRUNK-PARENT"
    /\ rows[3].trunk.kind = ""
    /\ \E i \in 1..Len(FetchedTrunks) :
          /\ Len(FetchedTrunks[i].sub_ports) = 2
          /\ FetchedTrunks[i].sub_ports[1].port_id = None
          /\ FetchedTrunks[i].sub_ports[2].port_id = "p1"

\* The last trunk of the collection whose port_id is pid.
LastParentTrunk(pid) ==
    LET I == {i \in 1..Len(FetchedTrunks) : FetchedTrunks[i].port_id = pid}
    IN  FetchedTrunks[CHOOSE i \in I : \A j \in I : j <= i]

\* C10: a port named both as a trunk's parent port and as a subport of some
\* trunk, in any order of the trunks, is reported as trunk-parent, with the
\* subport count equal to the length of its parent trunk's sub_ports list.
C10_ParentTakesPrecedence ==
    rpc = "done" =>
        \A r \in 1..Len(rows) :
            IsParentPort(rows[r].id) /\ IsSubPort(rows[r].id) =>
                /\ rows[r].trunk.kind = "TRUNK-PARENT"
                /\ rows[r].trunk.trunk = LastParentTrunk(rows[r].id).id
                /\ rows[r].trunk.nsubs =
                       Len(LastParentTrunk(rows[r].id).sub_ports)

\* C10 witness: p1 is a subport of the first trunk and the parent port of the
\* second, which has two subports, and is reported as parent with count 2.
C10_Witness ==
    /\ rpc = "done"
    /\ Len(FetchedTrunks) = 2
    /\ Len(FetchedTrunks[1].sub_ports) = 1
    /\ FetchedTrunks[1].sub_ports[1].port_id = "p1"
    /\ FetchedTrunks[1].port_id = "p2"
    /\ FetchedTrunks[2].port_id = "p1"
    /\ Len(FetchedTrunks[2].sub_ports) = 2
    /\ rows[1].id = "p1"
    /\ rows[1].trunk.kind = "TRUNK-PARENT"
    /\ rows[1].trunk.nsubs = 2

\* C10 witness, the other order: p1 is the parent port of the first trunk and
\* a subport of the second.
C10_WitnessParentFirst ==
    /\ rpc = "done"
    /\ Len(FetchedTrunks) = 2
    /\ FetchedTrunks[1].port_id = "p1"
    /\ Len(FetchedTrunks[1].sub_ports) = 0
    /\ Len(FetchedTrunks[2].sub_ports) = 1
    /\ FetchedTrunks[2].sub_ports[1].port_id = "p1"
    /\ rows[1].id = "p1"
    /\ rows[1].trunk.kind = "TRUNK-PARENT"
    /\ rows[1].trunk.nsubs = 0

\* compute_usage(conn, project_id, servers, flavor_by_id) at its first line,
\* for servers over S, a flavor cache of Caches and the get_flavor answers
\* of Svcs.
UsageEntry(S, Caches, Svcs) ==
    /\ servers \in SeqUpTo(S, MaxServers)
    /\ flavor_by_id \in Caches
    /\ cache0 = flavor_by_id
    /\ flavorSvc \in Svcs
    /\ limits = NotCalled
    /\ qset = NotCalled
    /\ iu = Null /\ cu = Null /\ ru = Null
    /\ live = << >>
    /\ k = 0
    /\ calls = << >>
    /\ result = Null
    /\ pc = "tier1"

\* Every answer get_flavor may give for every flavor id.
FlavorSvcs ==
    { f \in [FlavorIds -> UNION {FlavorAnswers(x) : x \in FlavorIds}] :
        \A x \in FlavorIds : f[x] \in FlavorAnswers(x) }

\* compute_usage under every answer of the limits and quota-set calls, over
\* a few servers.
InitUsage ==
    /\ BindingIdle
    /\ OverviewIdle
    /\ ResolverIdle
    /\ TrunksIdle
    /\ DiagIdle
    /\ HeaderIdle
    /\ UsageEntry(FewServers, {EmptyDict}, FlavorSvcs)
NextUsage ==
    \/ Tier1(LimitsResponses)
    \/ Tier2(QuotaResponses)
    \/ Tier3Start
    \/ Tier3Server
    \/ Tier3Return
SpecUsage == InitUsage /\ [][NextUsage]_vars

\* Answers of the limits and quota-set calls with which tiers 1 and 2 fail:
\* the call raises, or one of the three values is missing.
FailingLimits ==
    { [raised |-> TRUE],
      [raised |-> FALSE,
       absolute |-> [form |-> "obj",
                     vals |-> [x \in {"totalInstancesUsed"} |-> IntV(3)]]] }
FailingQuotas ==
    { [raised |-> TRUE],
      [raised |-> FALSE,
       qset |-> [kind |-> "resource",
                 data |-> [n \in QuotaNames |->
                             IF n = "instances" THEN QFlat(5) ELSE QMissing]]] }

\* compute_usage when tiers 1 and 2 fail, over every server collection,
\* flavor cache and get_flavor answer.
InitEnum ==
    /\ BindingIdle
    /\ OverviewIdle
    /\ ResolverIdle
    /\ TrunksIdle
    /\ DiagIdle
    /\ HeaderIdle
    /\ UsageEntry(ServerPool, FlavorCaches, FlavorSvcs)
NextEnum ==
    \/ Tier1(FailingLimits)
    \/ Tier2(FailingQuotas)
    \/ Tier3Start
    \/ Tier3Server
    \/ Tier3Return
SpecEnum == InitEnum /\ [][NextEnum]_vars

-----------------------------------------------------------------------------
(* Claims on compute_usage (SpecUsage, SpecEnum) *)

\* Whether a call of the given name was made.
Called(op) == \E i \in 1..Len(calls) : calls[i].op = op

\* Tier 1 yields all three values: get_limits() answered and each of the
\* three keys is present and not null.
Tier1Yields ==
    /\ Called("get_limits")
    /\ ~limits.raised
    /\ \A key \in LimitKeys :
          /\ key \in DOMAIN limits.absolute.vals
          /\ limits.absolute.vals[key] /= Null

\* The triple of tier 1.
Tier1Triple ==
    << limits.absolute.vals["totalInstancesUsed"][1],
       limits.absolute.vals["totalCoresUsed"][1],
       limits.absolute.vals["totalRAMUsed"][1] >>

\* Tier 2 succeeds: get_quota_set() answered and each of the three names
\* resolves to a number.
Tier2Yields ==
    /\ Called("get_quota_set")
    /\ ~qset.raised
    /\ \A n \in QuotaNames :
          /\ ~pick_in_use(qset.qset, n).raised
          /\ pick_in_use(qset.qset, n).val /= Null

\* The triple of tier 2.
Tier2Triple ==
    << pick_in_use(qset.qset, "instances").val[1],
       pick_in_use(qset.qset, "cores").val[1],
       pick_in_use(qset.qset, "ram").val[1] >>

\* The statuses of the model that denote a terminal deleted state: DELETED
\* and SOFT_DELETED in any letter case.
TerminalStatuses ==
    {"DELETED", "deleted", "SOFT_DELETED", "Soft_Deleted"}

\* The positions of the servers that are not in a terminal deleted state.
LivePositions ==
    {i \in 1..Len(servers) : servers[i].status \notin TerminalStatuses}

\* The flavor a flavor id resolves to: the one of the cache handed in, else
\* the one the compute service returns; "none" when neither has it.
ResolvedFlavor(fid) ==
    IF fid \in DOMAIN cache0 THEN [out |-> "ok", flavor |-> cache0[fid]]
    ELSE IF fid \in DOMAIN flavorSvc /\ flavorSvc[fid].out = "ok"
         THEN flavorSvc[fid]
         ELSE [out |-> "none"]

\* What server s adds to the sum of field f ("vcpus" or "ram"): the number
\* of its embedded flavor payload, else the number of the flavor its flavor
\* id resolves to, else 0.
Contribution(s, f) ==
    LET emb == IF s.flavor.kind = "dict" THEN s.flavor[f] ELSE Null
        fid == s.flavor.id
    IN  IF emb /= Null THEN emb[1]
        ELSE IF fid /= None /\ ResolvedFlavor(fid).out = "ok"
                            /\ ResolvedFlavor(fid).flavor[f] /= Null
             THEN ResolvedFlavor(fid).flavor[f][1]
             ELSE 0

\* The sum of the contributions of the live servers among the first n.
RECURSIVE SumLive(_, _)
SumLive(n, f) ==
    IF n = 0 THEN 0
    ELSE SumLive(n - 1, f)
           + (IF n \in LivePositions THEN Contribution(servers[n], f) ELSE 0)

\* The triple of tier 3.
Tier3Triple ==
    << Cardinality(LivePositions),
       SumLive(Len(servers), "vcpus"),
       SumLive(Len(servers), "ram") >>

\* C4: once the absolute-limits call has yielded all three values,
\* compute_usage has returned exactly those three values, and neither the
\* quota-set call nor the server enumeration or a flavor fetch was made.
C4_Tier1WinsAlone ==
    Tier1Yields =>
        /\ pc = "done"
        /\ result = Tier1Triple
        /\ calls = << Call("get_limits", None) >>
        /\ qset = NotCalled
        /\ live = << >> /\ k = 0
        /\ flavor_by_id = cache0

\* C4 witness: the limits {3, 6, 12288} read from a mapping give
\* (3, 6, 12288) while servers exist.
C4_Witness ==
    /\ pc = "done"
    /\ Tier1Yields
    /\ limits.absolute.form = "dict"
    /\ result = << 3, 6, 12288 >>
    /\ Len(servers) = 2

\* C5: the returned triple is, component for component, the triple of the
\* first tier in the order 1, 2, 3 that fully succeeds.
C5_FirstSuccessfulTierWins ==
    pc = "done" =>
        result = IF Tier1Yields THEN Tier1Triple
                 ELSE IF Tier2Yields THEN Tier2Triple
                 ELSE Tier3Triple

\* C5 witness: tier 1 yielded two of its three values and tier 2 one of
\* its three, and the result is the triple of tier 3.
C5_Witness ==
    /\ pc = "done"
    /\ ~limits.raised
    /\ DOMAIN limits.absolute.vals = LimitKeys
    /\ limits.absolute.vals["totalInstancesUsed"] = IntV(3)
    /\ limits.absolute.vals["totalCoresUsed"] = IntV(6)
    /\ limits.absolute.vals["totalRAMUsed"] = Null
    /\ Called("get_quota_set")
    /\ ~qset.raised
    /\ pick_in_use(qset.qset, "instances") = Picked(IntV(5))
    /\ pick_in_use(qset.qset, "cores") = Picked(Null)
    /\ Len(servers) = 2 /\ LivePositions = {1, 2}
    /\ result = Tier3Triple
    /\ result[1] = 2

\* C5 witness: tier 1 fails and tier 2 yields all three values.
C5_WitnessTier2 ==
    /\ pc = "done"
    /\ ~Tier1Yields
    /\ Tier2Yields
    /\ result = << 5, 10, 2048 >>

\* C6: when tiers 1 and 2 both fail, instances_used is the number of
\* servers whose status is not DELETED or SOFT_DELETED in any letter case (a
\* server without status is live); with no live server the result is
\* (0, 0, 0).
C6_InstancesAreLiveServers ==
    (pc = "done" /\ ~Tier1Yields /\ ~Tier2Yields) =>
        /\ result[1] = Cardinality(LivePositions)
        /\ LivePositions = {} => result = << 0, 0, 0 >>

\* C6 witness: a server without status and a server deleted in lower case
\* give one instance.
C6_Witness ==
    /\ pc = "done"
    /\ Len(servers) = 2
    /\ servers[1].status = None
    /\ servers[2].status = "deleted"
    /\ result[1] = 1

\* C6 witness: only deleted servers, with embedded flavors, give (0, 0, 0).
C6_WitnessNoneLive ==
    /\ pc = "done"
    /\ Len(servers) = 2
    /\ servers[1].status = "SOFT_DELETED"
    /\ servers[2].status = "Soft_Deleted"
    /\ servers[1].flavor = FlavorEmbedded
    /\ result = << 0, 0, 0 >>

\* C7: in tier 3 cores_used and ram_used_mb are the sums over the live
\* servers of vcpus and ram, from the embedded flavor payload when present
\* and else from the flavor resolved by the flavor id (cache, then fetch); a
\* live server resolved by neither adds 0 and still counts as an instance.
C7_Tier3Sums ==
    (pc = "done" /\ ~Tier1Yields /\ ~Tier2Yields) =>
        /\ result[1] = Cardinality(LivePositions)
        /\ result[2] = SumLive(Len(servers), "vcpus")
        /\ result[3] = SumLive(Len(servers), "ram")

\* C7 witness: one server with embedded {vcpus 2, ram 4096} and one
\* resolved by a fetch of its flavor id to {vcpus 4, ram 8192} give
\* (2, 6, 12288).
C7_Witness ==
    /\ pc = "done"
    /\ Len(servers) = 2
    /\ servers[1].flavor = FlavorEmbedded
    /\ servers[2].flavor = FlavorDictId("f1")
    /\ cache0 = EmptyDict
    /\ Called("get_flavor")
    /\ result = << 2, 6, 12288 >>

\* C7 witness: a live server whose flavor id is not cached and whose fetch
\* fails adds nothing to cores and ram and counts as an instance.
C7_WitnessUnresolved ==
    /\ pc = "done"
    /\ Len(servers) = 1
    /\ servers[1].flavor = FlavorObjId("f1")
    /\ cache0 = EmptyDict
    /\ flavorSvc["f1"].out = "raise"
    /\ result = << 1, 0, 0 >>

\* The positions compute_usage passes through.
UsagePositions == {"tier1", "tier2", "tier3", "loop", "done"}

\* C8: compute_usage never propagates an error and always returns a triple
\* of integers: no exception escapes, every position before the return has a
\* next step, a failure of tiers 1 and 2 leads into tier 3, and what is
\* returned is three non-negative integers.
C8_AlwaysReturnsTriple ==
    /\ pc \in UsagePositions
    /\ pc /= "done" => ENABLED NextUsage
    /\ (Called("get_quota_set") /\ ~Tier1Yields /\ ~Tier2Yields) =>
           pc \in {"tier3", "loop", "done"}
    /\ pc = "done" =>
           /\ Len(result) = 3
           /\ \A i \in 1..3 : result[i] \in Nat

\* C8 witness: both calls raise, the flavor fetch raises too, and (1, 0, 0)
\* is returned.
C8_Witness ==
    /\ pc = "done"
    /\ limits.raised
    /\ qset.raised
    /\ Called("get_flavor")
    /\ flavorSvc["f1"].out = "raise"
    /\ result = << 1, 0, 0 >>

\* C8 witness: a pick of tier 2 raises on a null nested in_use, and the
\* triple of tier 3 is returned.
C8_WitnessPickRaises ==
    /\ pc = "done"
    /\ Called("get_quota_set")
    /\ ~limits.raised
    /\ ~qset.raised
    /\ pick_in_use(qset.qset, "cores").raised
    /\ result = Tier3Triple

-----------------------------------------------------------------------------
(* Claims on the binding target (SpecDiag) *)

\* The records the fetch of collection c yielded.
FetchedItems(c) == conn[c].items

\* The name an id resolves to against the fetched collection c alone: the
\* name of the record with that id when no other record of c carries the same
\* name, and the raw id otherwise (unknown id, no name, shared name).
NameAmong(c, oid) ==
    LET items == FetchedItems(c)
        at == {i \in 1..Len(items) : items[i].id = oid}
    IN  IF /\ at /= {}
           /\ \A i \in at : Truthy(items[i].name)
           /\ \A i \in at : \A j \in 1..Len(items) :
                  items[j].name = items[i].name => items[j].id = oid
        THEN items[CHOOSE i \in at : TRUE].name
        ELSE oid

\* Whether the fetched collection c gives the id an unambiguous name.
HasNameAmong(c, oid) == NameAmong(c, oid) /= oid

\* The owners of the model by the class section 4.3 of the specification
\* puts them in.
ComputeOwners == { Owner.compute_nova }
RouterOwners == { Owner.router_interface }
LoadBalancerOwners == { Owner.LOADBALANCERV2, Owner.loadbalancer, Owner.Octavia }
OtherOwners == { Owner.dhcp, Owner.none }

\* The rows of a finished run, by position.
DoneRows == IF rpc = "done" THEN 1..Len(rows) ELSE {}

\* C11: in every finished run, a port with a device_id whose device_owner
\* starts with "compute" has as bound_to what the server collection alone
\* gives for the device_id (the server's name, or the raw device_id if the
\* name is shared or the server unknown), and one whose device_owner starts
\* with "network:router" what the router collection alone gives, whatever the
\* other collections hold under the same id.
C11_PrefixDecidesIndex ==
    \A r \in DoneRows :
        Truthy(ports[r].device_id) =>
            /\ ports[r].device_owner \in ComputeOwners =>
                   rows[r].bound_to = NameAmong("server", ports[r].device_id)
            /\ ports[r].device_owner \in RouterOwners =>
                   rows[r].bound_to = NameAmong("router", ports[r].device_id)

\* C11 witness: a compute port bound to d1, where the servers d1 and d2 share
\* a name and d1 is also a named router and a named load balancer: bound_to is
\* the raw d1.
C11_Witness ==
    /\ rpc = "done"
    /\ ports[1].device_owner = Owner.compute_nova
    /\ ports[1].device_id = "d1"
    /\ Len(FetchedItems("server")) = 2
    /\ HasNameAmong("router", "d1")
    /\ HasNameAmong("loadbalancer", "d1")
    /\ rows[1].bound_to = "d1"

\* C11, second witness: a router-interface port bound to d1, which is a
\* uniquely named server too: bound_to is the router's name.
C11_WitnessRouter ==
    /\ rpc = "done"
    /\ ports[1].device_owner = Owner.router_interface
    /\ ports[1].device_id = "d1"
    /\ HasNameAmong("server", "d1")
    /\ rows[1].bound_to = "rtr"

\* C12: in every finished run, a port with a device_id whose device_owner
\* starts with neither "compute" nor "network:router" and contains
\* "loadbalancer" or "octavia" in any letter case has as bound_to what the
\* load-balancer collection alone gives for the device_id, also when the
\* device_id is a server or a router too.
C12_LoadBalancerOwnersUseLbIndex ==
    \A r \in DoneRows :
        (Truthy(ports[r].device_id)
           /\ ports[r].device_owner \in LoadBalancerOwners) =>
            rows[r].bound_to = NameAmong("loadbalancer", ports[r].device_id)

\* C20: in every finished run, a port whose device_owner matches none of the
\* compute, network:router and load-balancer patterns has as bound_to the
\* first unambiguous name among what the server, the router and the
\* load-balancer collection give for its device_id, in that order, and the
\* raw device_id when none gives a name; a port with an empty or absent
\* device_id has an empty bound_to whatever its device_owner.
C20_BestEffortInOrder ==
    \A r \in DoneRows :
        LET d == ports[r].device_id
        IN  IF ~Truthy(d) THEN rows[r].bound_to = ""
            ELSE ports[r].device_owner \in OtherOwners =>
                 rows[r].bound_to =
                    (IF HasNameAmong("server", d) THEN NameAmong("server", d)
                     ELSE IF HasNameAmong("router", d) THEN NameAmong("router", d)
                     ELSE IF HasNameAmong("loadbalancer", d)
                          THEN NameAmong("loadbalancer", d)
                     ELSE d)

\* C20 witness: a DHCP port whose device_id d1 is a uniquely named server, a
\* named router and a named load balancer at once: the server's name wins.
C20_Witness ==
    /\ rpc = "done"
    /\ ports[1].device_owner = Owner.dhcp
    /\ ports[1].device_id = "d1"
    /\ HasNameAmong("server", "d1")
    /\ HasNameAmong("router", "d1")
    /\ HasNameAmong("loadbalancer", "d1")
    /\ rows[1].bound_to = "vm"

\* C20, second witness: the servers d1 and d2 share a name, so the router's
\* name is taken for d1.
C20_WitnessSecondIndex ==
    /\ rpc = "done"
    /\ ports[1].device_owner = Owner.none
    /\ ports[1].device_id = "d1"
    /\ Len(FetchedItems("server")) = 2
    /\ rows[1].bound_to = "rtr"

\* C20, third witness: a compute port with an empty device_id is unbound.
C20_WitnessUnbound ==
    /\ rpc = "done"
    /\ ports[1].device_owner = Owner.compute_nova
    /\ ports[1].device_id = ""
    /\ rows[1].bound_to = ""

-----------------------------------------------------------------------------
(* Claims on the compute quota maxima (SpecQuota) *)

\* The maximum the services reported for a quota, by its quota-set attribute
\* qattr and its absolute-limits key lkey: the quota set's value when that
\* call succeeded, else the absolute limit when that call succeeded, else
\* nothing.
ReportedMax(qattr, lkey) ==
    IF ~maxQuotaSet.raised THEN maxQuotaSet[qattr]
    ELSE IF ~maxLimits.raised
    THEN (IF lkey \in DOMAIN maxLimits.absolute.vals
          THEN maxLimits.absolute.vals[lkey] ELSE Null)
    ELSE Null

\* The reported maxima in the order of the header: instances, cores, ram.
ReportedMaxima ==
    << ReportedMax("instances", "maxTotalInstances"),
       ReportedMax("cores", "maxTotalCores"),
       ReportedMax("ram", "maxTotalRAMSize") >>

\* C13: once the header is rendered, every compute quota maximum that was
\* reported as -1 or not at all (None or missing, also when both the
\* quota-set call and the absolute-limits fallback failed) shows as the
\* infinity sign, never as "0" or "-1"; rendering never fails.
C13_UnboundedRendersInfinity ==
    /\ mpc = "printed" =>
         \A i \in 1..3 :
            ReportedMaxima[i] \in {Null, IntV(0 - 1)} =>
                /\ compute_header[i] = Infinity
                /\ compute_header[i] \notin {"0", "-1"}
    /\ mpc = "header" => ENABLED MainHeader

\* C13 witness: the quota-set call and the fallback both failed and the
\* header shows three infinity signs.
C13_Witness ==
    /\ mpc = "printed"
    /\ maxQuotaSet.raised
    /\ maxLimits.raised
    /\ compute_header = << Infinity, Infinity, Infinity >>

\* C13, second witness: a quota set with instances -1, no cores and ram 10.
C13_WitnessMinusOne ==
    /\ mpc = "printed"
    /\ ~maxQuotaSet.raised
    /\ maxQuotaSet.instances = IntV(0 - 1)
    /\ maxQuotaSet.cores = Null
    /\ maxQuotaSet.ram = IntV(10)
    /\ compute_header = << Infinity, Infinity, "10" >>

-----------------------------------------------------------------------------
(* Claims on the construction of the resolver and on the rows (SpecDiag) *)

\* Whether the fetch of collection c was made, and whether it failed.
WasFetched(c) == conn[c] /= NotCalled
FetchFailed(c) == WasFetched(c) /\ conn[c].raised

\* C14: constructing the NameResolver never ends in an exception: whichever
\* fetch fails, construction goes on to the next collection, and the failed
\* collection counts as empty.
C14_ConstructionNeverRaises ==
    /\ rpc /= "init_raised"
    /\ \A c \in Collections \ {"ip"} :
           FetchFailed(c) => DOMAIN _id[c] = {}

\* C15: build_rows never ends in an exception, and returns one row for
\* every port of its input, in input order, also when a field of one port
\* cannot be resolved.
C15_PerPortFailuresIsolated ==
    /\ rpc /= "rows_raised"
    /\ rpc = "done" =>
           /\ Len(rows) = Len(ports)
           /\ \A r \in 1..Len(ports) : rows[r].id = ports[r].id

\* C16: in every finished run a row's qos_policy is non-empty only if the
\* port has a non-empty qos_policy_id and the QoS policy fetch succeeded.
C16_QosOnlyWhenFetched ==
    \A r \in DoneRows :
        rows[r].qos_policy /= "" =>
            /\ Truthy(ports[r].qos_policy_id)
            /\ ~FetchFailed("qos_policy")
            /\ _have_qos

\* The position of the fetched subnet with the given id, 0 when there is none.
SubnetAt(sid) ==
    LET items == FetchedItems("subnet")
    IN  IF \E i \in 1..Len(items) : items[i].id = sid
        THEN CHOOSE i \in 1..Len(items) : items[i].id = sid
        ELSE 0

\* C17 as stated: in every finished run, a fixed-IP entry whose subnet_id
\* has no record among the subnets shows an empty subnet and an empty
\* network; an entry whose subnet is indexed shows the network its subnet's
\* network_id resolves to.
C17_MissingSubnetRendersEmpty ==
    \A r \in DoneRows :
        /\ Len(rows[r].ips) = Len(ports[r].fixed_ips)
        /\ \A i \in 1..Len(ports[r].fixed_ips) :
             LET sid == ports[r].fixed_ips[i].subnet_id
             IN  IF SubnetAt(sid) = 0
                 THEN /\ rows[r].ips[i].subnet = ""
                      /\ rows[r].ips[i].network = ""
                 ELSE rows[r].ips[i].network =
                        NameAmong("network",
                                  FetchedItems("subnet")[SubnetAt(sid)].network_id)

\* C17: in every finished run, a fixed-IP entry whose subnet_id has no
\* record among the subnets shows the raw subnet_id as subnet (nothing when
\* the entry has no subnet_id) and an empty network; an entry whose subnet is
\* indexed shows the subnet's name and the network its subnet's network_id
\* resolves to.
C17_MissingSubnetRendersRawId ==
    \A r \in DoneRows :
        /\ Len(rows[r].ips) = Len(ports[r].fixed_ips)
        /\ \A i \in 1..Len(ports[r].fixed_ips) :
             LET sid == ports[r].fixed_ips[i].subnet_id
             IN  /\ rows[r].ips[i].ip = ports[r].fixed_ips[i].ip_address
                 /\ IF SubnetAt(sid) = 0
                    THEN /\ rows[r].ips[i].subnet = (IF sid = None THEN "" ELSE sid)
                         /\ rows[r].ips[i].network = ""
                    ELSE /\ rows[r].ips[i].subnet = NameAmong("subnet", sid)
                         /\ rows[r].ips[i].network =
                              NameAmong("network",
                                  FetchedItems("subnet")[SubnetAt(sid)].network_id)

\* C17 witness: a port with one address on the indexed subnet s1 of network
\* n1 and one on the unknown subnet s9.
C17_Witness ==
    /\ rpc = "done"
    /\ Len(ports[1].fixed_ips) = 2
    /\ ports[1].fixed_ips[2].subnet_id = "s9"
    /\ rows[1].ips[1] = [ip |-> "10.0.0.5", subnet |-> "sub-a", network |-> "net-a"]
    /\ rows[1].ips[2] = [ip |-> "10.0.0.6", subnet |-> "s9", network |-> ""]

\* The ports none of whose fixed_ips entries is malformed.
WellFormedFixedIps(p) ==
    \A i \in 1..Len(p.fixed_ips) : p.fixed_ips[i].kind = "dict"

\* C18: when build_rows has run on ports with well-formed addresses, it has
\* returned rows, and every security group of a port, given as an id or as
\* an embedded object, shows as what the security-group collection gives for
\* its id.
C18_EmbeddedGroupsResolved ==
    (rpc \in {"done", "rows_raised"}
       /\ \A r \in 1..Len(ports) : WellFormedFixedIps(ports[r])) =>
        /\ rpc = "done"
        /\ \A r \in 1..Len(ports) :
             LET sgs == SecurityGroupsOf(ports[r])
             IN  /\ Len(rows[r].secgroups) = Len(sgs)
                 /\ \A i \in 1..Len(sgs) :
                      rows[r].secgroups[i] = NameAmong("security_group", sgs[i].id)

-----------------------------------------------------------------------------
(* Claims on the tier-2 forms of compute_usage (SpecUsage) *)

\* The value of a nested object under the given sub-field, None when the
\* object is no dict or has no such sub-field.
SubField(sub, f) ==
    IF sub.t = "dict" /\ f \in DOMAIN sub.d THEN sub.d[f] ELSE Null

\* The forms a usage may come in, in the order of section 4.4: the flat field
\* "<name>_in_use", the sub-fields in_use and used of the nested object (the
\* dict entry, then the attribute), the attribute "<name>_in_use".
UsageForms(q, name) ==
    << QdFlat(q, name),
       SubField(QdSub(q, name), "in_use"), SubField(QdSub(q, name), "used"),
       SubField(AttrSub(q, name), "in_use"), SubField(AttrSub(q, name), "used"),
       AttrInUse(q, name) >>

\* The first form that is not null, None when all are.
FirstNonNull(forms) ==
    IF \E i \in 1..Len(forms) : forms[i] /= Null
    THEN forms[CHOOSE i \in 1..Len(forms) :
                  /\ forms[i] /= Null
                  /\ \A j \in 1..(i - 1) : forms[j] = Null]
    ELSE Null

\* C19: when tier 1 has failed and get_quota_set() has answered, tier 2
\* returns if and only if each of instances, cores, ram has a non-null form,
\* and the triple it returns is made of the first non-null form of each; a
\* null earlier form does not keep a later one from being used.
C19_FirstNonNullForm ==
    (Called("get_quota_set") /\ ~qset.raised /\ ~Tier1Yields) =>
        LET first == [n \in QuotaNames |->
                         FirstNonNull(UsageForms(qset.qset, n))]
        IN  IF \A n \in QuotaNames : first[n] /= Null
            THEN /\ pc = "done"
                 /\ result = << first["instances"][1], first["cores"][1],
                                first["ram"][1] >>
            ELSE pc = "done" => result = Tier3Triple

-----------------------------------------------------------------------------
(* Claims on the flavor lookup of tier 3 (SpecEnum) *)

\* The positions of the calls get_flavor(fid) made so far.
FlavorFetches(fid) ==
    {i \in 1..Len(calls) : calls[i] = Call("get_flavor", fid)}

\* C21: within one run of compute_usage, a flavor id that is in the flavor
\* cache handed in is never fetched from the compute service, and every
\* flavor id is fetched at most once, however many live servers reference it
\* and whatever the fetch answers (a flavor, nothing, a failure).
C21_FlavorFetchedAtMostOnce ==
    \A fid \in FlavorIds :
        /\ fid \in DOMAIN cache0 => FlavorFetches(fid) = {}
        /\ Cardinality(FlavorFetches(fid)) <= 1

-----------------------------------------------------------------------------
(* Claims on get_binding_attr (SpecBinding) *)

\* The port carries a value under the namespaced key: to_dict returns a dict
\* that holds the key with a value other than None.
HasNamespaced(port, key) ==
    /\ ~port.to_dict.raised
    /\ key \in DOMAIN port.to_dict.val
    /\ port.to_dict.val[key] /= None

\* The namespaced key is absent: to_dict fails or its dict lacks the key.
LacksNamespaced(port, key) ==
    port.to_dict.raised \/ key \notin DOMAIN port.to_dict.val

\* The value under the flattened key: the attribute, or else the dict entry,
\* or else None.
FlattenedValue(port, key) ==
    LET alt == replace(key, ":", "_")
        a == Get(port.attrs, alt, None)
    IN  IF a /= None THEN a
        ELSE IF port.to_dict.raised THEN None
        ELSE Get(port.to_dict.val, alt, None)

\* C22: get_binding_attr prefers the colon-namespaced form: a port that
\* carries a value under the namespaced key gets that value returned, also
\* when the flattened key holds a different one; the flattened value is
\* returned only when the namespaced key is absent, and None when both are.
C22_NamespacedPreferred ==
    bkey /= << >> =>
        /\ HasNamespaced(bport, bkey) => bval = bport.to_dict.val[bkey]
        /\ LacksNamespaced(bport, bkey) => bval = FlattenedValue(bport, bkey)

-----------------------------------------------------------------------------
(* Claims on the rendered quota maxima of the three services (SpecLimits) *)

\* v is a finite maximum: an integer that is not negative.
Finite(v) == v /= Null /\ int(v) >= 0

\* The maximum the networking quota object holds for resource r: the one
\* under the main key, or, when it has no main key, under the alternate key.
NeutronMax(r) ==
    LET q == neutron_quota.vals
    IN  IF NeutronKeys[r].main \in DOMAIN q THEN q[NeutronKeys[r].main]
        ELSE Get(q, NeutronKeys[r].alt, Null)

\* The maximum the block-storage quota set holds under key.
CinderMax(key) ==
    IF cinderSvc.get_quota_set.raised THEN Null
    ELSE Get(cinderSvc.get_quota_set.vals, key, Null)

\* C23: a finite quota maximum v >= 0, zero included, is rendered as the
\* decimal numeral of v and not as the infinity sign, for each service: the
\* networking maxima that nq takes from an attribute-style or dict-style
\* quota object under the main or the alternate key, the compute maxima, and
\* the block-storage maxima (the backups maximum when backups are supported).
C23_FiniteMaximaRenderAsNumbers ==
    /\ networking_header /= << >> =>
         \A r \in NeutronResources :
            Finite(NeutronMax(r)) =>
                networking_header[r].lim = str(int(NeutronMax(r)))
    /\ compute_header /= << >> =>
         \A i \in 1..3 :
            Finite(ReportedMaxima[i]) =>
                compute_header[i] = str(int(ReportedMaxima[i]))
    /\ cinder_header /= << >> =>
         \A key \in CinderKeys :
            /\ Finite(CinderMax(key))
            /\ key = "backups" => ~cinderSvc.backups.raised
            => cinder_header[key] = str(int(CinderMax(key)))

-----------------------------------------------------------------------------
(* Claims on the networking fetches of main (SpecNetworking) *)

\* The local of main that holds the collection of each fetch.
LocalOf ==
    [networks |-> all_networks, subnets |-> all_subnets,
     ports |-> project_ports, routers |-> project_routers,
     security_groups |-> project_sgs, ips |-> project_fips,
     floating_ips |-> project_fips]

\* The fetch c was made and returned a list.
Succeeded(c) == netSvc[c] /= NotCalled /\ ~netSvc[c].raised

\* C24: the collection fetches fail independently: every collection whose
\* fetch succeeded holds what was fetched, whichever other fetch failed; in
\* particular the networks stay when the subnet fetch fails, and the header
\* counts the project's own non-external networks among those fetched.
C24_FetchesFailIndependently ==
    /\ \A c \in DOMAIN NetFetches :
          Succeeded(c) => LocalOf[c] = netSvc[c].items
    /\ Succeeded("networks") /\ networking_header /= << >> =>
          LET Mine(n) == n.project_id = Project.own /\ ~n.is_router_external
          IN  networking_header.networks.used =
                  str(CountIf(netSvc.networks.items, Mine))
====
